---------------------------- MODULE Spec2Model ----------------------------
(***************************************************************************)
(* Human Design chart engine (HD-cli): the wheel mapping of                *)
(* data/gates.rs, the static tables of data/channels.rs and                *)
(* data/centers.rs, and the derivation steps of calc.rs::build_chart.      *)
(*                                                                         *)
(* Longitudes are f64 degrees in the program.  Here a longitude is an      *)
(* integer number of sub-units:                                            *)
(*   - one base cell of the wheel (1/192 degree) is SubCell grid steps,    *)
(*   - one grid step is TinySteps sub-units.                               *)
(* Every grid value (a multiple of TinySteps) stands for an f64 value; a   *)
(* value that is not a multiple of TinySteps stands for an f64 whose       *)
(* magnitude is below half the f64 spacing of every non-zero grid value,   *)
(* so it is representable only next to zero and is absorbed by             *)
(* round-to-nearest as soon as it is added to a non-zero grid value        *)
(* (F64Add).  The f64 spacing doubles at 512 degrees: a sum kept below 512  *)
(* degrees is exact here, a sum of 512 degrees or more goes to the nearest *)
(* grid value (RoundF64), so the f64 next below a grid value, one sub-unit *)
(* off it, is lost when 180 degrees carry it over 512.                     *)
(* The step sizes 5.625, 0.9375 and 0.15625 are exact in f64  *)
(* and on the grid.  0.15625/6 and 0.15625/30 are exact on the grid but    *)
(* not in f64, so a longitude that lies exactly on a tone or base boundary *)
(* that is not a color boundary is not an input of the sweep below         *)
(* (ModelledLongitude): f64 may place it in the cell before.               *)
(***************************************************************************)
EXTENDS Integers, Sequences, FiniteSets, TLC

VARIABLES
    lng,              \* wheel: the ecliptic longitude handed to degree_to_gate
    pos,              \* wheel: the GatePosition degree_to_gate returned for lng
    pc,               \* build_chart: position inside the function
    personality_sun,  \* build_chart: Sun longitude at the birth moment
    design_sun,       \* build_chart: Sun longitude at the design moment
    body_lngs,        \* build_chart: longitudes of the other bodies, both moments
    pers_gates,       \* build_chart: GatePosition of the personality Sun and Earth
    des_gates,        \* build_chart: GatePosition of the design Sun and Earth
    all_active_gates, \* build_chart: the active gates, sorted and deduplicated
    active_channels,  \* build_chart: the deduplicated active channels
    defined_centers,  \* build_chart: the defined centers
    type_key,         \* build_chart: key of the type
    authority_key,    \* build_chart: key of the authority
    profile_key,      \* build_chart: "<personality Sun line>/<design Sun line>"
    angle_key,        \* build_chart: key of the incarnation-cross angle
    center_infos,     \* build_chart: HdChart.centers
    strategy,         \* build_chart: HdChart.strategy
    incarnation_cross,\* build_chart: HdChart.incarnation_cross
    lang,             \* build_chart: the `lang` argument
    i18n_locale,      \* process: the current locale of rust_i18n
    first_chart,      \* process: the chart of the earlier call, same arguments
    civil,            \* calc_julian_day: the arguments
    julian,           \* calc_julian_day: the date handed to time::julian_day
    solver,           \* find_design_jd: target, estimate, loop counter
    cli,              \* main: the position in main and the parsed values
    ephemeris,        \* calc_planet_positions: what the astro crate returns
    positions,        \* calc_planet_positions: the Vec<PlanetCalcResult>
    dedup_in,         \* unique_channels: the list handed in
    dedup_out         \* unique_channels: the list returned

inputs == <<pc, personality_sun, design_sun, body_lngs>>

derived ==
    <<pers_gates, des_gates, all_active_gates, active_channels, defined_centers,
      type_key, authority_key, profile_key, angle_key, center_infos,
      strategy, incarnation_cross>>

process == <<lang, i18n_locale, first_chart>>

calendar == <<civil, julian>>

dedup == <<dedup_in, dedup_out>>

sky == <<ephemeris, positions>>

vars == <<lng, pos, inputs, derived, process, calendar, solver, cli, dedup, sky>>

---------------------------------------------------------------------------
(* Bounds of the model *)

\* grid steps per base cell (1/192 degree) of the wheel
SubCell == 2
\* sub-units per grid step: the resolution f64 has only next to zero
TinySteps == 3
\* full turns swept below 0 and above 360 degrees
MaxTurns == 1
\* bodies other than the two Suns and Earths whose longitude is drawn
MaxBodies == 3

---------------------------------------------------------------------------
(* f64 degrees in sub-units *)

Min(a, b) == IF a < b THEN a ELSE b

Abs(x) == IF x < 0 THEN -x ELSE x

\* base cells of the wheel: 64 gates x 6 lines x 6 colors x 6 tones x 5 bases
CellsPerCircle == 64 * 6 * 6 * 6 * 5

\* sub-units of one degree
DegUnits == (CellsPerCircle \div 360) * SubCell * TinySteps

\* the literal 360.0
D360 == 360 * DegUnits

\* Round-to-nearest of f64 on a sum: a value next to zero is kept, any other
\* value goes to the nearest grid value (ties to the even one).
RoundF64(x) ==
    IF Abs(x) < TinySteps THEN x
    ELSE LET q == x \div TinySteps
             r == x % TinySteps
         IN  IF 2 * r < TinySteps THEN q * TinySteps
             ELSE IF 2 * r > TinySteps THEN (q + 1) * TinySteps
             ELSE IF q % 2 = 0 THEN q * TinySteps ELSE (q + 1) * TinySteps

\* 512.0, where the spacing of f64 doubles
CoarseFrom == 512 * DegUnits

\* f64 `a + b` and `a - b`: a value next to zero is absorbed by any other
\* value, a sum below 512 degrees is exact, a larger one is rounded
F64Add(a, b) ==
    IF Abs(a) >= TinySteps /\ Abs(b) < TinySteps THEN a
    ELSE IF Abs(b) >= TinySteps /\ Abs(a) < TinySteps THEN b
    ELSE IF Abs(a + b) < CoarseFrom THEN a + b
    ELSE RoundF64(a + b)

F64Sub(a, b) == F64Add(a, -b)

\* f64 `a % m` (fmod): exact, the result has the sign of the dividend
F64Rem(a, m) == IF a >= 0 THEN a % m ELSE -((-a) % m)

\* `x.floor() as u8` / `as usize` of a quotient a / b with b > 0:
\* the cast saturates at 0
FloorCast(a, b) == IF a < 0 THEN 0 ELSE a \div b

---------------------------------------------------------------------------
(* data/gates.rs *)

\* GATE_ORDER with gate 19 entered twice and gate 13 left out
GATE_ORDER_repeats_19 ==
    << 41, 19, 19, 49, 30, 55, 37, 63,
       22, 36, 25, 17, 21, 51, 42,  3,
       27, 24,  2, 23,  8, 20, 16, 35,
       45, 12, 15, 52, 39, 53, 62, 56,
       31, 33,  7,  4, 29, 59, 40, 64,
       47,  6, 46, 18, 48, 57, 32, 50,
       28, 44,  1, 43, 14, 34,  9,  5,
       26, 11, 10, 58, 38, 54, 61, 60 >>

GATE_ORDER ==
    << 41, 19, 13, 49, 30, 55, 37, 63,
       22, 36, 25, 17, 21, 51, 42,  3,
       27, 24,  2, 23,  8, 20, 16, 35,
       45, 12, 15, 52, 39, 53, 62, 56,
       31, 33,  7,  4, 29, 59, 40, 64,
       47,  6, 46, 18, 48, 57, 32, 50,
       28, 44,  1, 43, 14, 34,  9,  5,
       26, 11, 10, 58, 38, 54, 61, 60 >>

WHEEL_START_DEGREE == 302 * DegUnits

GATE_SIZE_DEG == (5625 * DegUnits) \div 1000

LINE_SIZE_DEG == (9375 * DegUnits) \div 10000

COLOR_SIZE_DEG == (15625 * DegUnits) \div 100000

\* degree_to_gate with the within-line remainder not reduced by the line
degree_to_gate_keeps_line(ecliptic_deg) ==
    LET deg0         == F64Rem(ecliptic_deg, D360)
        deg          == IF deg0 < 0 THEN F64Add(deg0, D360) ELSE deg0
        offset0      == F64Sub(deg, WHEEL_START_DEGREE)
        offset       == IF offset0 < 0 THEN F64Add(offset0, D360) ELSE offset0
        gate_index   == Min(FloorCast(offset, GATE_SIZE_DEG), 63)
        within_gate  == F64Sub(offset, gate_index * GATE_SIZE_DEG)
        line_index   == FloorCast(within_gate, LINE_SIZE_DEG)
        line         == Min(line_index + 1, 6)
        within_line  == within_gate
        color_index  == FloorCast(within_line, COLOR_SIZE_DEG)
        color        == Min(color_index + 1, 6)
        within_color == F64Sub(within_line, color_index * COLOR_SIZE_DEG)
        tone_size    == COLOR_SIZE_DEG \div 6
        tone_index   == FloorCast(within_color, tone_size)
        tone         == Min(tone_index + 1, 6)
        within_tone  == F64Sub(within_color, tone_index * tone_size)
        base_size    == tone_size \div 5
        base_index   == FloorCast(within_tone, base_size)
        base         == Min(base_index + 1, 5)
    IN  [ gate   |-> GATE_ORDER[gate_index + 1],
          line   |-> line,
          color  |-> color,
          tone   |-> tone,
          base   |-> base,
          degree |-> deg ]

degree_to_gate(ecliptic_deg) ==
    LET deg0         == F64Rem(ecliptic_deg, D360)
        deg          == IF deg0 < 0 THEN F64Add(deg0, D360) ELSE deg0
        offset0      == F64Sub(deg, WHEEL_START_DEGREE)
        offset       == IF offset0 < 0 THEN F64Add(offset0, D360) ELSE offset0
        gate_index   == Min(FloorCast(offset, GATE_SIZE_DEG), 63)
        within_gate  == F64Sub(offset, gate_index * GATE_SIZE_DEG)
        line_index   == FloorCast(within_gate, LINE_SIZE_DEG)
        line         == Min(line_index + 1, 6)
        within_line  == F64Sub(within_gate, line_index * LINE_SIZE_DEG)
        color_index  == FloorCast(within_line, COLOR_SIZE_DEG)
        color        == Min(color_index + 1, 6)
        within_color == F64Sub(within_line, color_index * COLOR_SIZE_DEG)
        tone_size    == COLOR_SIZE_DEG \div 6
        tone_index   == FloorCast(within_color, tone_size)
        tone         == Min(tone_index + 1, 6)
        within_tone  == F64Sub(within_color, tone_index * tone_size)
        base_size    == tone_size \div 5
        base_index   == FloorCast(within_tone, base_size)
        base         == Min(base_index + 1, 5)
    IN  [ gate   |-> GATE_ORDER[gate_index + 1],
          line   |-> line,
          color  |-> color,
          tone   |-> tone,
          base   |-> base,
          degree |-> deg ]

---------------------------------------------------------------------------
(* The longitudes the wheel is swept over *)

\* one base cell
CellUnits == SubCell * TinySteps

SweepLo == -(MaxTurns * D360)

SweepHi == (MaxTurns + 1) * D360

\* An f64 value the fixed-point arithmetic above is faithful on: a value next
\* to zero, a point strictly inside a base cell, or a color boundary.
ModelledLongitude(x) ==
    /\ RoundF64(x) = x
    /\ \/ Abs(x) < TinySteps
       \/ (x - WHEEL_START_DEGREE) % CellUnits # 0
       \/ (x - WHEEL_START_DEGREE) % COLOR_SIZE_DEG = 0

\* the gate boundaries inside the sweep, and the two values next to zero
SweepStarts ==
    { x \in { WHEEL_START_DEGREE + k * GATE_SIZE_DEG :
                 k \in (-64 * (MaxTurns + 1)) .. (64 * (MaxTurns + 1)) } :
        SweepLo <= x /\ x < SweepHi } \cup { SweepLo + TinySteps }

TinyLongitudes == { -1, 1 }

NoPos == [gate |-> 0, line |-> 0, color |-> 0, tone |-> 0, base |-> 0, degree |-> 0]

NoCross == [ source |-> "", text |-> << >>, gates |-> << >> ]

\* the derived values before build_chart has computed them
NotDerived ==
    /\ pers_gates = [Sun |-> NoPos, Earth |-> NoPos]
    /\ des_gates = [Sun |-> NoPos, Earth |-> NoPos]
    /\ all_active_gates = {}
    /\ active_channels = << >>
    /\ defined_centers = {}
    /\ type_key = ""
    /\ authority_key = ""
    /\ profile_key = ""
    /\ angle_key = ""
    /\ center_infos = << >>
    /\ strategy = << >>
    /\ incarnation_cross = NoCross

\* no call of build_chart has returned yet; rust_i18n starts in its default
\* locale
NoProcess ==
    /\ lang = "en"
    /\ i18n_locale = "en"
    /\ first_chart = << >>

NoCivil ==
    [ year |-> 0, month |-> 0, day |-> 0, hour |-> 0, min |-> 0,
      utc_offset |-> [nan |-> FALSE, v |-> 0], ticks |-> 0 ]

NoJulian ==
    [ year |-> 0, month |-> 0, day |-> 0, hr |-> 0, min |-> 0, panicked |-> FALSE ]

NoCalendar == civil = NoCivil /\ julian = NoJulian

IdleSolver ==
    [ pc |-> "idle", target |-> 0, jd |-> 0, i |-> 0, evals |-> 0,
      current_lng |-> 0, eval_jd |-> 0, broke |-> FALSE ]

IdleCli ==
    [ pc |-> "idle", year |-> 0, month |-> 0, day |-> 0, hour |-> 0, min |-> 0,
      utc_offset |-> [nan |-> FALSE, v |-> 0], chart |-> FALSE ]

NoDedup == dedup_in = << >> /\ dedup_out = << >>

NoEphemeris == [ sun |-> 0, moon |-> 0, node |-> 0, planets |-> << >>, pluto |-> 0 ]

NoSky == ephemeris = NoEphemeris /\ positions = << >>

\* everything outside the wheel and build_chart is idle
Elsewhere == NoCalendar /\ solver = IdleSolver /\ cli = IdleCli /\ NoDedup /\ NoSky

elsewhere == <<calendar, solver, cli, dedup, sky>>

WheelInit ==
    /\ lng \in { x \in SweepStarts \cup TinyLongitudes : ModelledLongitude(x) }
    /\ pos = degree_to_gate(lng)
    /\ pc = "wheel"
    /\ personality_sun = 0
    /\ design_sun = 0
    /\ body_lngs = {}
    /\ NotDerived
    /\ NoProcess
    /\ Elsewhere

\* the next swept longitude: the next grid point that is modelled
NextPoint ==
    /\ lng % TinySteps = 0
    /\ \E d \in 1 .. 2 :
        /\ lng' = lng + d * TinySteps
        /\ \A e \in 1 .. (d - 1) : ~ModelledLongitude(lng + e * TinySteps)
        /\ ModelledLongitude(lng')
    /\ lng' < SweepHi
    /\ pos' = degree_to_gate(lng')
    /\ UNCHANGED <<inputs, derived, process, elsewhere>>

\* the same point of the next base cell
NextCell ==
    /\ lng % TinySteps = 0
    /\ lng' = lng + CellUnits
    /\ ModelledLongitude(lng')
    /\ lng' < SweepHi
    /\ pos' = degree_to_gate(lng')
    /\ UNCHANGED <<inputs, derived, process, elsewhere>>

WheelNext == NextPoint \/ NextCell

WheelSpec == WheelInit /\ [][WheelNext]_vars

---------------------------------------------------------------------------
(* data/centers.rs *)

Center_all ==
    << "Head", "Ajna", "Throat", "G", "Heart",
       "Sacral", "SolarPlexus", "Spleen", "Root" >>

is_motor(center) == center \in { "Sacral", "Heart", "SolarPlexus", "Root" }

\* gates_for_center with gate 20 listed under G
gates_for_center_20_in_G(center) ==
    CASE center = "Head"        -> << 64, 61, 63 >>
      [] center = "Ajna"        -> << 47, 24, 4, 17, 43, 11 >>
      [] center = "Throat"      -> << 62, 23, 56, 31, 8, 33, 16, 12, 35, 45 >>
      [] center = "G"           -> << 7, 1, 13, 10, 2, 25, 15, 46, 20 >>
      [] center = "Heart"       -> << 21, 51, 26, 40 >>
      [] center = "Sacral"      -> << 14, 34, 5, 29, 59, 27, 42, 3, 9 >>
      [] center = "SolarPlexus" -> << 22, 36, 6, 37, 55, 30, 49 >>
      [] center = "Spleen"      -> << 48, 57, 44, 50, 32, 28, 18 >>
      [] center = "Root"        -> << 53, 60, 52, 19, 39, 41, 58, 38, 54 >>

gates_for_center(center) ==
    CASE center = "Head"        -> << 64, 61, 63 >>
      [] center = "Ajna"        -> << 47, 24, 4, 17, 43, 11 >>
      [] center = "Throat"      -> << 62, 23, 56, 31, 8, 33, 20, 16, 12, 35, 45 >>
      [] center = "G"           -> << 7, 1, 13, 10, 2, 25, 15, 46 >>
      [] center = "Heart"       -> << 21, 51, 26, 40 >>
      [] center = "Sacral"      -> << 14, 34, 5, 29, 59, 27, 42, 3, 9 >>
      [] center = "SolarPlexus" -> << 22, 36, 6, 37, 55, 30, 49 >>
      [] center = "Spleen"      -> << 48, 57, 44, 50, 32, 28, 18 >>
      [] center = "Root"        -> << 53, 60, 52, 19, 39, 41, 58, 38, 54 >>

---------------------------------------------------------------------------
(* data/channels.rs *)

ChannelDef(a, b, ca, cb) ==
    [gate_a |-> a, gate_b |-> b, center_a |-> ca, center_b |-> cb]

all_channels ==
    << ChannelDef(64, 47, "Head", "Ajna"),
       ChannelDef(61, 24, "Head", "Ajna"),
       ChannelDef(63, 4, "Head", "Ajna"),
       ChannelDef(17, 62, "Ajna", "Throat"),
       ChannelDef(43, 23, "Ajna", "Throat"),
       ChannelDef(11, 56, "Ajna", "Throat"),
       ChannelDef(7, 31, "G", "Throat"),
       ChannelDef(1, 8, "G", "Throat"),
       ChannelDef(13, 33, "G", "Throat"),
       ChannelDef(10, 20, "G", "Throat"),
       ChannelDef(16, 48, "Throat", "Spleen"),
       ChannelDef(20, 57, "Throat", "Spleen"),
       ChannelDef(20, 34, "Throat", "Sacral"),
       ChannelDef(12, 22, "Throat", "SolarPlexus"),
       ChannelDef(35, 36, "Throat", "SolarPlexus"),
       ChannelDef(45, 21, "Throat", "Heart"),
       ChannelDef(2, 14, "G", "Sacral"),
       ChannelDef(10, 34, "G", "Sacral"),
       ChannelDef(25, 51, "G", "Heart"),
       ChannelDef(15, 5, "G", "Sacral"),
       ChannelDef(46, 29, "G", "Sacral"),
       ChannelDef(26, 44, "Heart", "Spleen"),
       ChannelDef(40, 37, "Heart", "SolarPlexus"),
       ChannelDef(59, 6, "Sacral", "SolarPlexus"),
       ChannelDef(27, 50, "Sacral", "Spleen"),
       ChannelDef(34, 57, "Sacral", "Spleen"),
       ChannelDef(5, 15, "Sacral", "G"),
       ChannelDef(14, 2, "Sacral", "G"),
       ChannelDef(29, 46, "Sacral", "G"),
       ChannelDef(42, 53, "Sacral", "Root"),
       ChannelDef(3, 60, "Sacral", "Root"),
       ChannelDef(9, 52, "Sacral", "Root"),
       ChannelDef(57, 20, "Spleen", "Throat"),
       ChannelDef(18, 58, "Spleen", "Root"),
       ChannelDef(28, 38, "Spleen", "Root"),
       ChannelDef(32, 54, "Spleen", "Root"),
       ChannelDef(39, 55, "Root", "SolarPlexus"),
       ChannelDef(41, 30, "Root", "SolarPlexus"),
       ChannelDef(19, 49, "Root", "SolarPlexus") >>

\* ChannelDef::key with the gates in the order they are listed
key_as_listed(ch) == ToString(ch.gate_a) \o "-" \o ToString(ch.gate_b)

\* ChannelDef::key made of the first gate alone
key_of_first_gate(ch) == ToString(ch.gate_a)

\* ChannelDef::key: format!("{}-{}", min, max)
key(ch) ==
    IF ch.gate_a < ch.gate_b
    THEN ToString(ch.gate_a) \o "-" \o ToString(ch.gate_b)
    ELSE ToString(ch.gate_b) \o "-" \o ToString(ch.gate_a)

\* find_active_channels with `||` in place of `&&`
find_active_channels_either_gate(active_gates) ==
    SelectSeq(all_channels,
              LAMBDA ch : ch.gate_a \in active_gates \/ ch.gate_b \in active_gates)

find_active_channels(active_gates) ==
    SelectSeq(all_channels,
              LAMBDA ch : ch.gate_a \in active_gates /\ ch.gate_b \in active_gates)

\* the filter of unique_channels: `seen.insert(ch.key())` keeps the first
\* channel of every key
RECURSIVE unique_filter(_, _)
unique_filter(channels, seen) ==
    IF channels = << >> THEN << >>
    ELSE LET ch == Head(channels)
         IN  IF key(ch) \in seen
             THEN unique_filter(Tail(channels), seen)
             ELSE <<ch>> \o unique_filter(Tail(channels), seen \cup {key(ch)})

unique_channels(channels) == unique_filter(channels, {})

---------------------------------------------------------------------------
(* astro_calc.rs *)

normalize_deg(deg) ==
    LET d == F64Rem(deg, D360)
    IN  IF d < 0 THEN F64Add(d, D360) ELSE d

(***************************************************************************)
(* Hours are f64 in calc_julian_day.  The values that occur are sums of    *)
(* whole hours, quarter hours and min/60; the binary expansion of a        *)
(* sixtieth has period 4, so an f64 of 53 significant bits rounds them the *)
(* way a binary float of 53 - 40 significant bits does.  An hour is        *)
(* HourUnits units, fine enough for every such float below 32 hours.       *)
(***************************************************************************)
SigBits == 53 - 40

HourUnits == 2 ^ (SigBits + 5)

\* spacing of the floats around x >= 0
RECURSIVE UlpOf(_)
UlpOf(x) == IF x < 2 ^ SigBits THEN 1 ELSE 2 * UlpOf(x \div 2)

\* the float nearest to n / d (n >= 0, d > 0), ties to even
RoundRatio(n, d) ==
    LET u == UlpOf(n \div d)
        k == n \div (d * u)
        r == n % (d * u)
    IN  IF 2 * r < d * u THEN k * u
        ELSE IF 2 * r > d * u THEN (k + 1) * u
        ELSE IF k % 2 = 0 THEN k * u ELSE (k + 1) * u

\* the float nearest to x
RoundHours(x) == IF x < 0 THEN -RoundRatio(-x, 1) ELSE RoundRatio(x, 1)

\* an f64 of hours: a number of units, or NaN
Hours(x) == [nan |-> FALSE, v |-> x]

NaN == [nan |-> TRUE, v |-> 0]

\* `x.floor() as u8`: the cast saturates and sends NaN to 0
floor_as_u8(x) ==
    IF x.nan \/ x.v < 0 THEN 0
    ELSE IF x.v \div HourUnits > 255 THEN 255
    ELSE x.v \div HourUnits

\* f64::fract
fract(x) ==
    IF x.nan THEN NaN
    ELSE IF x.v < 0 THEN Hours(-((-x.v) % HourUnits))
    ELSE Hours(x.v % HourUnits)

\* `(f * 60.0).floor() as u8` of a fraction of an hour
minutes_as_u8(f) ==
    IF f.nan THEN 0 ELSE floor_as_u8(Hours(RoundHours(f.v * 60)))

\* month_from_u8 panics on a month outside 1..12
month_from_u8_panics(m) == m \notin 1 .. 12

\* days_in_month with a leap year every fourth year
days_in_month_every_fourth_year(year, month) ==
    IF month \in { 1, 3, 5, 7, 8, 10, 12 } THEN 31
    ELSE IF month \in { 4, 6, 9, 11 } THEN 30
    ELSE IF month = 2
    THEN IF year % 4 = 0 THEN 29 ELSE 28
    ELSE 30

days_in_month(year, month) ==
    IF month \in { 1, 3, 5, 7, 8, 10, 12 } THEN 31
    ELSE IF month \in { 4, 6, 9, 11 } THEN 30
    ELSE IF month = 2
    THEN IF year % 4 = 0 /\ (year % 100 # 0 \/ year % 400 = 0) THEN 29 ELSE 28
    ELSE 30

\* prev_day staying in the same year on January 1
prev_day_keeps_year(year, month, day) ==
    IF day > 1 THEN << year, month, day - 1 >>
    ELSE IF month > 1 THEN << year, month - 1, days_in_month(year, month - 1) >>
    ELSE << year, 12, 31 >>

prev_day(year, month, day) ==
    IF day > 1 THEN << year, month, day - 1 >>
    ELSE IF month > 1 THEN << year, month - 1, days_in_month(year, month - 1) >>
    ELSE << year - 1, 12, 31 >>

\* next_day staying in the same year on December 31
next_day_keeps_year(year, month, day) ==
    IF day < days_in_month(year, month) THEN << year, month, day + 1 >>
    ELSE IF month < 12 THEN << year, month + 1, 1 >>
    ELSE << year, 1, 1 >>

next_day(year, month, day) ==
    IF day < days_in_month(year, month) THEN << year, month, day + 1 >>
    ELSE IF month < 12 THEN << year, month + 1, 1 >>
    ELSE << year + 1, 1, 1 >>

\* `adj_year as i16`
as_i16(year) == ((year + 32768) % 65536) - 32768

\* the time::Date and time::DayOfMonth handed to time::julian_day
Date(ymd, hr, mn) ==
    [ year |-> as_i16(ymd[1]), month |-> ymd[2], day |-> ymd[3],
      hr |-> hr, min |-> mn, panicked |-> month_from_u8_panics(ymd[2]) ]

\* calc_julian_day up to the call of time::julian_day
calc_julian_day(year, month, day, hour, min, utc_offset) ==
    LET total_hours ==
            IF utc_offset.nan THEN NaN
            ELSE Hours(RoundHours(
                    RoundHours(hour * HourUnits + RoundRatio(min * HourUnits, 60))
                        - utc_offset.v))
        below == ~total_hours.nan /\ total_hours.v < 0
        above == ~total_hours.nan /\ total_hours.v >= 24 * HourUnits
    IN  IF below
        THEN LET corrected_hours == Hours(RoundHours(total_hours.v + 24 * HourUnits))
             IN  Date(prev_day(year, month, day),
                      floor_as_u8(corrected_hours),
                      minutes_as_u8(fract(corrected_hours)))
        ELSE IF above
        THEN LET corrected_hours == Hours(RoundHours(total_hours.v - 24 * HourUnits))
             IN  Date(next_day(year, month, day),
                      floor_as_u8(corrected_hours),
                      minutes_as_u8(fract(corrected_hours)))
        ELSE LET f == fract(total_hours)
             IN  Date(<< year, month, day >>,
                      floor_as_u8(total_hours),
                      minutes_as_u8(IF f.nan THEN NaN ELSE Hours(Abs(f.v))))

\* time::julian_day of the astro crate on a Gregorian date: the whole days
\* of the Julian Day and the minutes after the noon they are counted from
\* (time::decimal_day is day + hr/24 + min/1440)
julian_day(date) ==
    LET y == IF date.month <= 2 THEN date.year - 1 ELSE date.year
        m == IF date.month <= 2 THEN date.month + 12 ELSE date.month
        a == y \div 100
        b == 2 - a + (a \div 4)
    IN  [ day    |-> ((36525 * (y + 4716)) \div 100)
                        + ((306001 * (m + 1)) \div 10000) + date.day + b - 1524,
          minute |-> date.hr * 60 + date.min - 720 ]

\* the target with a quarter turn in place of 88 degrees
design_target_quarter_turn(birth_sun_lng) ==
    normalize_deg(F64Sub(birth_sun_lng, 90 * DegUnits))

\* `normalize_deg(birth_sun_lng - 88.0)`
design_target(birth_sun_lng) ==
    normalize_deg(F64Sub(birth_sun_lng, 88 * DegUnits))

\* `for _ in 0..50`
MaxIterations == 50

\* the loop of find_design_jd without its bound
loop_continues_forever(i) == TRUE

loop_continues(i) == i < MaxIterations

\* the two corrections of `diff` for the passage through 0/360 degrees
wrap_diff(diff) ==
    LET d == IF diff > 180 * DegUnits THEN F64Sub(diff, D360) ELSE diff
    IN  IF d < -(180 * DegUnits) THEN F64Add(d, D360) ELSE d

\* the tolerance test on the signed difference
within_tolerance_signed(diff) == diff < TinySteps

\* `diff.abs() < 0.0001`: 0.0001 degree is more than any value next to zero
\* and less than one grid step
within_tolerance(diff) == Abs(diff) < TinySteps

\* the integer nearest to a / b, b > 0
DivNearest(a, b) == (2 * a + b) \div (2 * b)

\* Julian Days are counted from birth_jd, a day is DegUnits units;
\* `birth_jd - 89.3`
first_estimate == -DivNearest(893 * DegUnits, 10)

\* `jd += diff / 0.9856`
advance(jd, diff) == jd + DivNearest(diff * 625, 616)

---------------------------------------------------------------------------
(* calc.rs *)

\* find_defined_centers inserting center_a only
find_defined_centers_only_a(channels) ==
    { channels[i].center_a : i \in 1 .. Len(channels) }

find_defined_centers(channels) ==
    { channels[i].center_a : i \in 1 .. Len(channels) }
        \cup { channels[i].center_b : i \in 1 .. Len(channels) }

\* the pushes of one pass of `for ch in channels` for the popped center
RECURSIVE push_neighbors(_, _, _)
push_neighbors(current, defined, channels) ==
    IF channels = << >> THEN << >>
    ELSE LET ch == Head(channels)
             a  == IF ch.center_a = current /\ ch.center_b \in defined
                   THEN <<ch.center_b>> ELSE << >>
             b  == IF ch.center_b = current /\ ch.center_a \in defined
                   THEN <<ch.center_a>> ELSE << >>
         IN  a \o b \o push_neighbors(current, defined, Tail(channels))

\* the `while let Some(current) = stack.pop()` loop
RECURSIVE search_from(_, _, _, _)
search_from(stack, visited, defined, channels) ==
    IF stack = << >> THEN FALSE
    ELSE LET current == stack[Len(stack)]
             rest    == SubSeq(stack, 1, Len(stack) - 1)
         IN  IF current \in visited
             THEN search_from(rest, visited, defined, channels)
             ELSE IF current # "Throat" /\ is_motor(current)
             THEN TRUE
             ELSE search_from(rest \o push_neighbors(current, defined, channels),
                              visited \cup {current}, defined, channels)

\* has_motor_to_throat_connection looking only at the centers pushed from
\* Throat itself (no further traversal)
has_motor_to_throat_connection_one_hop(defined, channels) ==
    IF "Throat" \notin defined THEN FALSE
    ELSE LET pushed == push_neighbors("Throat", defined, channels)
         IN  \E i \in 1 .. Len(pushed) : is_motor(pushed[i])

has_motor_to_throat_connection(defined, channels) ==
    IF "Throat" \notin defined THEN FALSE
    ELSE search_from(<<"Throat">>, {}, defined, channels)

\* determine_type with the manifestor arm moved before the two Sacral arms
determine_type_manifestor_first(defined, channels) ==
    LET has_sacral      == "Sacral" \in defined
        motor_to_throat == has_motor_to_throat_connection(defined, channels)
    IN  IF defined = {} THEN "reflector"
        ELSE IF motor_to_throat THEN "manifestor"
        ELSE IF has_sacral /\ motor_to_throat THEN "manifesting_generator"
        ELSE IF has_sacral THEN "generator"
        ELSE "projector"

determine_type(defined, channels) ==
    LET has_sacral      == "Sacral" \in defined
        motor_to_throat == has_motor_to_throat_connection(defined, channels)
    IN  IF defined = {} THEN "reflector"
        ELSE IF has_sacral /\ motor_to_throat THEN "manifesting_generator"
        ELSE IF has_sacral THEN "generator"
        ELSE IF motor_to_throat THEN "manifestor"
        ELSE "projector"

\* determine_authority testing Sacral before SolarPlexus
determine_authority_sacral_first(defined) ==
    IF "Sacral" \in defined THEN "sacral"
    ELSE IF "SolarPlexus" \in defined THEN "emotional"
    ELSE IF "Spleen" \in defined THEN "splenic"
    ELSE IF "Heart" \in defined THEN "ego"
    ELSE IF "G" \in defined THEN "self_projected"
    ELSE IF "Throat" \in defined THEN "mental"
    ELSE "lunar"

determine_authority(defined) ==
    IF "SolarPlexus" \in defined THEN "emotional"
    ELSE IF "Sacral" \in defined THEN "sacral"
    ELSE IF "Spleen" \in defined THEN "splenic"
    ELSE IF "Heart" \in defined THEN "ego"
    ELSE IF "G" \in defined THEN "self_projected"
    ELSE IF "Throat" \in defined THEN "mental"
    ELSE "lunar"

\* format!("{}/{}", pers_sun_gp.1.line, des_sun_gp.1.line)
profile_key_of(pers_sun_gp, des_sun_gp) ==
    ToString(pers_sun_gp.line) \o "/" \o ToString(des_sun_gp.line)

\* the angle match with "4/1" in the left-angle arm
angle_key_of_no_juxtaposition(profile) ==
    IF profile \in { "1/3", "1/4", "2/4", "2/5", "3/5", "3/6", "4/6" }
    THEN "right_angle"
    ELSE IF profile \in { "4/1", "5/1", "5/2", "6/2", "6/3" }
    THEN "left_angle"
    ELSE "right_angle"

\* `match profile.as_str()`
angle_key_of(profile) ==
    IF profile \in { "1/3", "1/4", "2/4", "2/5", "3/5", "3/6", "4/6" }
    THEN "right_angle"
    ELSE IF profile = "4/1"
    THEN "juxtaposition"
    ELSE IF profile \in { "5/1", "5/2", "6/2", "6/3" }
    THEN "left_angle"
    ELSE "right_angle"

\* `Center::all().iter().map(..)`: one CenterInfo per center; the name is
\* the database's text for the center and is kept here as the center itself
center_infos_of(defined) ==
    [ i \in 1 .. Len(Center_all) |->
        [center |-> Center_all[i], defined |-> Center_all[i] \in defined] ]

\* rust_i18n::t!(key): the text of `key` in the current locale of the
\* process; the texts of two locales differ
t(locale, text_key) == <<locale, text_key>>

\* determine_strategy_localized: reads the current locale through t!
determine_strategy_localized(locale, hd_type_key) ==
    IF hd_type_key \in { "generator", "manifesting_generator", "projector",
                         "manifestor", "reflector" }
    THEN t(locale, "strategy." \o hd_type_key)
    ELSE t(locale, "strategy.unknown")

\* database::get_database: the database of a language code, "ru" by default
get_database(language) ==
    IF language = "en" THEN "en" ELSE IF language = "es" THEN "es" ELSE "ru"

\* HdDatabase.gates of the sample database: the cross keys of a gate.  Gate
\* 25 has no entry, gate 12 has an empty list.
SampleDbGates ==
    [ g \in { "17", "20", "2", "12", "10" } |->
        IF g = "17" THEN << "left_angle_cross_of_upheaval",
                            "right_angle_cross_of_service",
                            "right_angle_cross_of_service_2" >>
        ELSE IF g = "20" THEN << "juxtaposition_cross_of_the_now",
                                 "left_angle_cross_of_duality",
                                 "right_angle_cross_of_the_sleeping_phoenix" >>
        ELSE IF g = "2" THEN << "left_angle_cross_of_defiance",
                                "juxtaposition_cross_of_the_driver" >>
        ELSE IF g = "12" THEN << >>
        ELSE << "left_angle_cross_of_prevention",
                "right_angle_cross_of_the_vessel_of_love" >> ]

\* HdDatabase.crosses of the sample database: the cross keys that have a
\* MetaObject; "right_angle_cross_of_the_vessel_of_love" has none
SampleDbCrosses ==
    { "left_angle_cross_of_upheaval", "right_angle_cross_of_service",
      "right_angle_cross_of_service_2", "juxtaposition_cross_of_the_now",
      "left_angle_cross_of_duality", "right_angle_cross_of_the_sleeping_phoenix",
      "left_angle_cross_of_defiance", "juxtaposition_cross_of_the_driver",
      "left_angle_cross_of_prevention" }

\* `cross_key.contains(angle_key_part)` on the keys of the sample database:
\* a key contains the angle it starts with and no other
contains(cross_key, angle_key_part) ==
    LET n == Len(angle_key_part)
    IN  /\ Len(cross_key) >= n
        /\ SubSeq(cross_key, 1, n) = angle_key_part

\* the `for cross_key in &gate_data.crosses` loop: Some(first key that contains
\* the angle) as a one-element sequence, None as the empty one
RECURSIVE first_containing(_, _)
first_containing(crosses, angle_key_part) ==
    IF crosses = << >> THEN << >>
    ELSE IF contains(Head(crosses), angle_key_part) THEN << Head(crosses) >>
    ELSE first_containing(Tail(crosses), angle_key_part)

\* find_cross_key_in_db without the fallback to the first key of the list
find_cross_key_in_db_no_fallback(db_gates, sun_gate_id, angle_key_part) ==
    IF sun_gate_id \in DOMAIN db_gates
    THEN first_containing(db_gates[sun_gate_id], angle_key_part)
    ELSE << >>

find_cross_key_in_db(db_gates, sun_gate_id, angle_key_part) ==
    IF sun_gate_id \in DOMAIN db_gates
    THEN LET crosses == db_gates[sun_gate_id]
             found   == first_containing(crosses, angle_key_part)
         IN  IF found # << >> THEN found
             ELSE IF crosses # << >> THEN << crosses[1] >>
             ELSE << >>
    ELSE << >>

\* step 13 of build_chart: the name of the cross in the database of `lang`
\* with the four gates, or the label of t!("cross.default_fmt") with the name
\* of the angle in the current locale and the four gates
incarnation_cross_of(language, locale, angle, p_sun, p_earth, d_sun, d_earth) ==
    LET cross_db_key_opt ==
            find_cross_key_in_db(SampleDbGates, ToString(p_sun), angle)
        cross_name ==
            IF cross_db_key_opt # << >> /\ cross_db_key_opt[1] \in SampleDbCrosses
            THEN << get_database(language), cross_db_key_opt[1] >>
            ELSE << >>
        angle_name ==
            IF angle \in { "right_angle", "juxtaposition", "left_angle" }
            THEN t(locale, "angle." \o angle)
            ELSE t(locale, "")
    IN  IF cross_name # << >>
        THEN [ source |-> "db", text |-> cross_name,
               gates |-> << p_sun, p_earth, d_sun, d_earth >> ]
        ELSE [ source |-> "cross.default_fmt", text |-> angle_name,
               gates |-> << p_sun, p_earth, d_sun, d_earth >> ]

---------------------------------------------------------------------------
(* The longitudes the ephemeris is taken to return *)

\* a grid point inside the first base cell of line `line` of the gate at
\* wheel position `index` (0-based)
SampleLongitude(index, line) ==
    (WHEEL_START_DEGREE + index * GATE_SIZE_DEG + (line - 1) * LINE_SIZE_DEG
        + TinySteps) % D360

\* wheel positions of the gates 17, 20, 2, 12, 25, 10: the personality Sun
\* is drawn in line k of the k-th of them
PersonalitySunIndex == << 11, 21, 18, 25, 10, 58 >>

PersonalitySunLongitudes ==
    { SampleLongitude(PersonalitySunIndex[k], k) : k \in 1 .. 6 }

\* the design Sun is drawn among the targets of find_design_jd, 88 degrees
\* behind a personality Sun
DesignSunLongitudes ==
    { normalize_deg(F64Sub(s, 88 * DegUnits)) : s \in PersonalitySunLongitudes }

\* the gates the other bodies are drawn in
BodyGates == { 1, 8, 20, 34, 57, 10, 2, 14, 17, 62, 64, 47, 12, 22, 25, 51, 58 }

BodyLongitudes ==
    { SampleLongitude(i - 1, 1) : i \in { j \in 1 .. 64 : GATE_ORDER[j] \in BodyGates } }

---------------------------------------------------------------------------
(* build_chart as a state machine *)

Init ==
    /\ lng = 0
    /\ pos = NoPos
    /\ pc = "personality"
    /\ personality_sun = 0
    /\ design_sun = 0
    /\ body_lngs = {}
    /\ NotDerived
    /\ NoProcess
    /\ Elsewhere

\* step 2: the Sun of calc_planet_positions(personality_jd)
CalcPersonalitySun ==
    /\ pc = "personality"
    /\ personality_sun' \in PersonalitySunLongitudes
    /\ pc' = "design"
    /\ UNCHANGED <<lng, pos, design_sun, body_lngs, derived, process, elsewhere>>

\* steps 3 and 4: the Sun of calc_planet_positions(design_jd)
CalcDesignSun ==
    /\ pc = "design"
    /\ design_sun' \in DesignSunLongitudes
    /\ pc' = "bodies"
    /\ UNCHANGED <<lng, pos, personality_sun, body_lngs, derived, process, elsewhere>>

\* steps 2 and 4: the longitude of one more body, at either moment
CalcBody ==
    /\ pc = "bodies"
    /\ Cardinality(body_lngs) < MaxBodies
    /\ \E l \in BodyLongitudes \ body_lngs : body_lngs' = body_lngs \cup {l}
    /\ UNCHANGED <<lng, pos, pc, personality_sun, design_sun, derived, process,
                   elsewhere>>

\* Earth of calc_planet_positions: normalize_deg(sun_lng + 180.0)
earth_lng_of(sun_lng) == normalize_deg(F64Add(sun_lng, 180 * DegUnits))

\* steps 5 to 13 of build_chart, and the center list, on the longitudes of
\* steps 1 to 4
RunBuildChart ==
    /\ pers_gates' = [ Sun   |-> degree_to_gate(personality_sun),
                       Earth |-> degree_to_gate(earth_lng_of(personality_sun)) ]
    /\ des_gates' = [ Sun   |-> degree_to_gate(design_sun),
                      Earth |-> degree_to_gate(earth_lng_of(design_sun)) ]
    /\ all_active_gates' =
          { pers_gates'.Sun.gate, pers_gates'.Earth.gate,
            des_gates'.Sun.gate, des_gates'.Earth.gate }
              \cup { degree_to_gate(l).gate : l \in body_lngs }
    /\ active_channels' = unique_channels(find_active_channels(all_active_gates'))
    /\ defined_centers' = find_defined_centers(active_channels')
    /\ type_key' = determine_type(defined_centers', active_channels')
    /\ authority_key' = determine_authority(defined_centers')
    /\ profile_key' = profile_key_of(pers_gates'.Sun, des_gates'.Sun)
    /\ angle_key' = angle_key_of(profile_key')
    /\ center_infos' = center_infos_of(defined_centers')
    /\ strategy' = determine_strategy_localized(i18n_locale, type_key')
    /\ incarnation_cross' =
          incarnation_cross_of(lang, i18n_locale, angle_key',
                               pers_gates'.Sun.gate, pers_gates'.Earth.gate,
                               des_gates'.Sun.gate, des_gates'.Earth.gate)

\* one call of build_chart from the library's caller
BuildChart ==
    /\ pc = "bodies"
    /\ RunBuildChart
    /\ pc' = "done"
    /\ UNCHANGED <<lng, pos, personality_sun, design_sun, body_lngs, process,
                   elsewhere>>

Next == CalcPersonalitySun \/ CalcDesignSun \/ CalcBody \/ BuildChart

Spec == Init /\ [][Next]_vars

---------------------------------------------------------------------------
(* Two calls of build_chart with equal arguments in one process *)

\* the `lang` arguments and the locales of rust_i18n that are drawn
Languages == { "en", "ru" }

\* the arguments of the two calls, and with them the longitudes of steps 1
\* to 4, are drawn once
PureInit ==
    /\ lng = 0
    /\ pos = NoPos
    /\ pc = "args"
    /\ personality_sun \in PersonalitySunLongitudes
    /\ design_sun \in DesignSunLongitudes
    /\ body_lngs \in { b \in SUBSET BodyLongitudes : Cardinality(b) <= 1 }
    /\ NotDerived
    /\ lang \in Languages
    /\ i18n_locale = "en"
    /\ first_chart = << >>
    /\ Elsewhere

\* rust_i18n::set_locale, called by main or by any other thread of the
\* process
SetLocale ==
    /\ i18n_locale' \in Languages \ { i18n_locale }
    /\ UNCHANGED <<lng, pos, inputs, derived, lang, first_chart, elsewhere>>

FirstCall ==
    /\ pc = "args"
    /\ RunBuildChart
    /\ pc' = "done"
    /\ UNCHANGED <<lng, pos, personality_sun, design_sun, body_lngs, process,
                   elsewhere>>

\* the chart of the first call is kept to be compared with
SecondCall ==
    /\ pc = "done"
    /\ first_chart' = derived
    /\ RunBuildChart
    /\ pc' = "again"
    /\ UNCHANGED <<lng, pos, personality_sun, design_sun, body_lngs, lang,
                   i18n_locale, elsewhere>>

PureNext == SetLocale \/ FirstCall \/ SecondCall

PureSpec == PureInit /\ [][PureNext]_vars

\* C17: a second call of build_chart with the arguments of the first returns
\* the chart of the first, whatever the locale of rust_i18n was set to in
\* between.
C17_BuildChartIsPure == pc = "again" => derived = first_chart

---------------------------------------------------------------------------
(* Claims about the derivation, checked under Spec *)

\* channel lists of at most this length are tried in every order
MaxReorder == 4

\* the centers joined to Throat by a path of channels between centers of
\* `defined`
RECURSIVE ConnectedTo(_, _, _)
ConnectedTo(found, defined, channels) ==
    LET more == { c \in defined :
                    \E i \in 1 .. Len(channels) :
                        \/ channels[i].center_a \in found /\ channels[i].center_b = c
                        \/ channels[i].center_b \in found /\ channels[i].center_a = c }
    IN  IF more \subseteq found THEN found
        ELSE ConnectedTo(found \cup more, defined, channels)

MotorReachable(defined, channels) ==
    /\ "Throat" \in defined
    /\ \E c \in ConnectedTo({"Throat"}, defined, channels) \ {"Throat"} :
          c \in { "Sacral", "Heart", "SolarPlexus", "Root" }

\* every order of a short channel list; the reversed and the rotated lists
\* of a longer one
Reorderings(channels) ==
    LET n == Len(channels)
    IN  IF n <= MaxReorder
        THEN { [i \in 1 .. n |-> channels[p[i]]] : p \in Permutations(1 .. n) }
        ELSE { [i \in 1 .. n |-> channels[n + 1 - i]] }
                \cup { [i \in 1 .. n |-> channels[((i + k) % n) + 1]] : k \in 1 .. n }

\* C1: the type is the first match of: no defined center -> reflector;
\* Sacral defined and motor-to-throat reachable -> manifesting_generator;
\* Sacral defined -> generator; motor-to-throat reachable -> manifestor;
\* otherwise projector.
C1_TypeIsFirstMatch ==
    pc = "done" =>
        LET reachable == MotorReachable(defined_centers, active_channels)
            sacral    == "Sacral" \in defined_centers
        IN  /\ type_key \in { "reflector", "manifesting_generator", "generator",
                              "manifestor", "projector" }
            /\ type_key = "reflector" <=> defined_centers = {}
            /\ type_key = "manifesting_generator" <=> (sacral /\ reachable)
            /\ type_key = "generator" <=> (sacral /\ ~reachable)
            /\ type_key = "manifestor"
                  <=> (defined_centers # {} /\ ~sacral /\ reachable)
            /\ type_key = "projector"
                  <=> (defined_centers # {} /\ ~sacral /\ ~reachable)

\* C1 witness: a chart with Sacral and Throat defined and no motor joined to
\* Throat, typed generator by the third rule.
C1_Witness ==
    /\ pc = "done"
    /\ type_key = "generator"
    /\ "Throat" \in defined_centers

\* C2: has_motor_to_throat_connection is true iff Throat is defined and a
\* motor center (Sacral, Heart, SolarPlexus, Root) is joined to Throat by a
\* path of active channels between defined centers, whatever the order of
\* the channel list.
C2_MotorToThroatIsReachability ==
    pc = "done" =>
        \A channels \in Reorderings(active_channels) \cup {active_channels} :
            has_motor_to_throat_connection(defined_centers, channels)
                = MotorReachable(defined_centers, active_channels)

\* C2 witness: a chart whose Throat reaches a motor only through another
\* center (no active channel joins Throat to a motor).
C2_Witness ==
    /\ pc = "done"
    /\ has_motor_to_throat_connection(defined_centers, active_channels)
    /\ \A i \in 1 .. Len(active_channels) :
          LET ch == active_channels[i]
          IN  /\ ~(ch.center_a = "Throat" /\ is_motor(ch.center_b))
              /\ ~(ch.center_b = "Throat" /\ is_motor(ch.center_a))

\* the priority list of C3
AuthorityPriority ==
    << <<"SolarPlexus", "emotional">>, <<"Sacral", "sacral">>,
       <<"Spleen", "splenic">>, <<"Heart", "ego">>,
       <<"G", "self_projected">>, <<"Throat", "mental">> >>

\* C3: the authority is that of the first defined center of the priority
\* list SolarPlexus, Sacral, Spleen, Heart, G, Throat, and lunar when none
\* of them is defined; SolarPlexus and Sacral both defined give emotional.
C3_AuthorityIsFirstDefined ==
    pc = "done" =>
        LET hits == { i \in 1 .. 6 : AuthorityPriority[i][1] \in defined_centers }
        IN  /\ hits = {} => authority_key = "lunar"
            /\ hits # {} =>
                  authority_key
                      = AuthorityPriority[CHOOSE i \in hits : \A j \in hits : i <= j][2]
            /\ {"SolarPlexus", "Sacral"} \subseteq defined_centers
                  => authority_key = "emotional"

\* C3 witness: a chart with SolarPlexus and Sacral both defined.
C3_Witness ==
    /\ pc = "done"
    /\ {"SolarPlexus", "Sacral"} \subseteq defined_centers
    /\ authority_key = "emotional"

\* the gate-pair keys of the active channels
ActiveKeys == { key(active_channels[i]) : i \in 1 .. Len(active_channels) }

\* C4: a channel of the table is among the active channels iff both of its
\* gates are in the union of the personality and the design gates; with one
\* gate only it is not active.
C4_ChannelActiveIffBothGates ==
    pc = "done" =>
        /\ all_active_gates =
              { pers_gates.Sun.gate, pers_gates.Earth.gate,
                des_gates.Sun.gate, des_gates.Earth.gate }
                  \cup { degree_to_gate(l).gate : l \in body_lngs }
        /\ \A i \in 1 .. Len(all_channels) :
              LET ch == all_channels[i]
              IN  key(ch) \in ActiveKeys
                      <=> (ch.gate_a \in all_active_gates /\ ch.gate_b \in all_active_gates)
        /\ \A i \in 1 .. Len(active_channels) :
              \E j \in 1 .. Len(all_channels) : active_channels[i] = all_channels[j]
        /\ "1-8" \in ActiveKeys <=> {1, 8} \subseteq all_active_gates

\* C4 witness: a chart with gate 1 active and gate 8 not, in which the
\* channel 1-8 is not active although another channel is.
C4_Witness ==
    /\ pc = "done"
    /\ 1 \in all_active_gates
    /\ 8 \notin all_active_gates
    /\ "1-8" \notin ActiveKeys
    /\ active_channels # << >>

\* C5: a center is defined iff it is centerA or centerB of an active
\* channel, and the center list holds the 9 centers once each, in the order
\* Head, Ajna, Throat, G, Heart, Sacral, SolarPlexus, Spleen, Root, with the
\* defined flag equal to that membership.
C5_DefinedCentersAndCenterList ==
    pc = "done" =>
        LET order == << "Head", "Ajna", "Throat", "G", "Heart",
                        "Sacral", "SolarPlexus", "Spleen", "Root" >>
            touched(c) == \E i \in 1 .. Len(active_channels) :
                              \/ active_channels[i].center_a = c
                              \/ active_channels[i].center_b = c
        IN  /\ \A c \in { order[i] : i \in 1 .. 9 } : c \in defined_centers <=> touched(c)
            /\ defined_centers \subseteq { order[i] : i \in 1 .. 9 }
            /\ Len(center_infos) = 9
            /\ \A i \in 1 .. 9 :
                  /\ center_infos[i].center = order[i]
                  /\ center_infos[i].defined = touched(order[i])

\* C5 witness: a chart with Head defined and Root undefined.
C5_Witness ==
    /\ pc = "done"
    /\ center_infos[1].defined
    /\ ~center_infos[9].defined
    /\ "Head" \in defined_centers

\* C9: the static channel table a chart is built from holds exactly 36
\* channel definitions.
C9_TableHas36Channels == pc = "done" => Len(all_channels) = 36

\* C10: the profile key is "<personality Sun line>/<design Sun line>" and
\* the angle is right_angle for 1/3, 1/4, 2/4, 2/5, 3/5, 3/6, 4/6,
\* juxtaposition for 4/1, left_angle for 5/1, 5/2, 6/2, 6/3 and right_angle
\* for every other pair of lines.
C10_ProfileAndAngle ==
    pc = "done" =>
        LET p     == pers_gates.Sun.line
            d     == des_gates.Sun.line
            digit == << "1", "2", "3", "4", "5", "6" >>
        IN  /\ p \in 1 .. 6 /\ d \in 1 .. 6
            /\ profile_key = digit[p] \o "/" \o digit[d]
            /\ angle_key =
                  IF <<p, d>> = <<4, 1>> THEN "juxtaposition"
                  ELSE IF <<p, d>> \in { <<5, 1>>, <<5, 2>>, <<6, 2>>, <<6, 3>> }
                  THEN "left_angle"
                  ELSE "right_angle"

\* C10 witness: a chart with personality Sun in line 4 and design Sun in
\* line 1, the juxtaposition profile.
C10_Witness ==
    /\ pc = "done"
    /\ profile_key = "4/1"
    /\ angle_key = "juxtaposition"

\* C25: the authority is lunar iff the type is reflector.
C25_LunarIffReflector ==
    pc = "done" => (authority_key = "lunar" <=> type_key = "reflector")

\* every channel of the table joins two different centers
ChannelsJoinTwoCenters ==
    \A i \in 1 .. Len(all_channels) :
        all_channels[i].center_a # all_channels[i].center_b

\* C26: every channel of the table joins two different centers, every
\* defined center has an active channel to another defined center, and the
\* set of defined centers never has exactly one element.
C26_NeverOneDefinedCenter ==
    pc = "done" =>
        /\ ChannelsJoinTwoCenters
        /\ \A c \in defined_centers :
              \E i \in 1 .. Len(active_channels) :
                 LET ch == active_channels[i]
                 IN  /\ c \in { ch.center_a, ch.center_b }
                     /\ { ch.center_a, ch.center_b } \subseteq defined_centers
                     /\ ch.center_a # ch.center_b
        /\ Cardinality(defined_centers) # 1

\* C26 witness: a chart with one active channel and its two centers
\* defined.
C26_Witness ==
    /\ pc = "done"
    /\ Len(active_channels) = 1
    /\ Cardinality(defined_centers) = 2

\* the places (center, index) at which gates_for_center lists a gate
PlacesOf(gate) ==
    { place \in { Center_all[c] : c \in 1 .. Len(Center_all) } \X (1 .. 64) :
        /\ place[2] <= Len(gates_for_center(place[1]))
        /\ gates_for_center(place[1])[place[2]] = gate }

\* gates_for_center lists every gate 1..64 once, under one center
EachGateInOneCenter == \A gate \in 1 .. 64 : Cardinality(PlacesOf(gate)) = 1

\* the center gates_for_center lists the gate under
CenterOfGate(gate) == (CHOOSE place \in PlacesOf(gate) : TRUE)[1]

\* gateA of every channel of the table is a gate of its centerA, gateB of
\* its centerB
ChannelGatesInTheirCenters ==
    \A i \in 1 .. Len(all_channels) :
        /\ CenterOfGate(all_channels[i].gate_a) = all_channels[i].center_a
        /\ CenterOfGate(all_channels[i].gate_b) = all_channels[i].center_b

\* C30: gates_for_center assigns each gate 1..64 to exactly one of the 9
\* centers and, for every entry of the channel table, gateA belongs to
\* centerA and gateB to centerB; so the centers a chart defines are the
\* centers of the gates of its active channels.
C30_TablesAgree ==
    pc = "done" =>
        /\ EachGateInOneCenter
        /\ ChannelGatesInTheirCenters
        /\ defined_centers
              = { CenterOfGate(active_channels[i].gate_a) : i \in 1 .. Len(active_channels) }
                  \cup { CenterOfGate(active_channels[i].gate_b) : i \in 1 .. Len(active_channels) }

\* C30 witness: a chart with the channel 20-57 active, Throat and Spleen
\* defined.
C30_Witness ==
    /\ pc = "done"
    /\ { 20, 57 } \subseteq all_active_gates
    /\ { "Throat", "Spleen" } \subseteq defined_centers

\* the unordered gate pair of a channel definition
GatePair(ch) ==
    IF ch.gate_a <= ch.gate_b THEN <<ch.gate_a, ch.gate_b>>
    ELSE <<ch.gate_b, ch.gate_a>>

\* the active channels before unique_channels
RawActiveChannels == find_active_channels(all_active_gates)

\* table entries with the same unordered gate pair join the same unordered
\* pair of centers
SharedPairsJoinSameCenters ==
    \A i, j \in 1 .. Len(all_channels) :
        GatePair(all_channels[i]) = GatePair(all_channels[j])
            => { all_channels[i].center_a, all_channels[i].center_b }
                 = { all_channels[j].center_a, all_channels[j].center_b }

\* C27: table entries with the same unordered gate pair join the same
\* unordered pair of centers, and the defined centers, the type and the
\* authority computed from the raw list of active channels equal those of
\* the chart, which are computed from the deduplicated list.
C27_DedupKeepsCentersTypeAuthority ==
    pc = "done" =>
        LET raw_defined == find_defined_centers(RawActiveChannels)
        IN  /\ SharedPairsJoinSameCenters
            /\ raw_defined = defined_centers
            /\ determine_type(raw_defined, RawActiveChannels) = type_key
            /\ determine_authority(raw_defined) = authority_key
            /\ { GatePair(RawActiveChannels[i]) : i \in 1 .. Len(RawActiveChannels) }
                  = { GatePair(active_channels[i]) : i \in 1 .. Len(active_channels) }

\* C27 witness: a chart whose raw list holds a channel twice, and another
\* channel besides.
C27_Witness ==
    /\ pc = "done"
    /\ Len(RawActiveChannels) > Len(active_channels)
    /\ Len(active_channels) >= 2

\* the angle category a cross key of the sample database is tagged with
TaggedAngle(cross_key) ==
    IF cross_key \in { "right_angle_cross_of_service",
                       "right_angle_cross_of_service_2",
                       "right_angle_cross_of_the_sleeping_phoenix",
                       "right_angle_cross_of_the_vessel_of_love" }
    THEN "right_angle"
    ELSE IF cross_key \in { "juxtaposition_cross_of_the_now",
                            "juxtaposition_cross_of_the_driver" }
    THEN "juxtaposition"
    ELSE "left_angle"

\* C20: the cross is named by the first key of the personality-Sun gate's
\* list that is tagged with the chart's angle; by the first key of the list
\* when none is tagged; and by the generic label of the angle name and the
\* gates of personality Sun/Earth and design Sun/Earth when the gate has no
\* key, no entry, or the key has no text.  Every chart gets one of the two.
C20_CrossNameResolution ==
    pc = "done" =>
        LET g      == ToString(pers_gates.Sun.gate)
            list   == IF g \in DOMAIN SampleDbGates THEN SampleDbGates[g] ELSE << >>
            tagged == { i \in 1 .. Len(list) : TaggedAngle(list[i]) = angle_key }
            first  == CHOOSE i \in tagged : \A j \in tagged : i <= j
            chosen == IF tagged # {} THEN << list[first] >>
                      ELSE IF Len(list) > 0 THEN << list[1] >>
                      ELSE << >>
            four   == << pers_gates.Sun.gate, pers_gates.Earth.gate,
                         des_gates.Sun.gate, des_gates.Earth.gate >>
        IN  /\ incarnation_cross.gates = four
            /\ incarnation_cross.source \in { "db", "cross.default_fmt" }
            /\ IF chosen # << >> /\ chosen[1] \in SampleDbCrosses
               THEN /\ incarnation_cross.source = "db"
                    /\ incarnation_cross.text = << get_database(lang), chosen[1] >>
               ELSE /\ incarnation_cross.source = "cross.default_fmt"
                    /\ incarnation_cross.text = << i18n_locale, "angle." \o angle_key >>

\* C20 witness: a chart whose personality Sun is in gate 2 with a right
\* angle; no key of gate 2 is tagged right_angle, and the first key names
\* the cross.
C20_Witness ==
    /\ pc = "done"
    /\ pers_gates.Sun.gate = 2
    /\ angle_key = "right_angle"
    /\ incarnation_cross.source = "db"
    /\ incarnation_cross.text[2] = "left_angle_cross_of_defiance"

---------------------------------------------------------------------------
(* unique_channels on lists built entry by entry *)

\* longest list handed to unique_channels
MaxDedup == 4

\* the entries the lists are built from: table entries, among them the two
\* listings of 20-57, and the 1-8 entry with its gates swapped
DedupEntries ==
    { all_channels[8], ChannelDef(8, 1, "Throat", "G"),
      all_channels[12], all_channels[33], all_channels[13] }

DedupInit ==
    /\ lng = 0
    /\ pos = NoPos
    /\ pc = "dedup"
    /\ personality_sun = 0
    /\ design_sun = 0
    /\ body_lngs = {}
    /\ NotDerived
    /\ NoProcess
    /\ NoCalendar
    /\ solver = IdleSolver
    /\ cli = IdleCli
    /\ NoSky
    /\ dedup_in = << >>
    /\ dedup_out = unique_channels(<< >>)

\* one more entry is appended and unique_channels is called on the list
DedupAppend ==
    /\ Len(dedup_in) < MaxDedup
    /\ \E ch \in DedupEntries : dedup_in' = Append(dedup_in, ch)
    /\ dedup_out' = unique_channels(dedup_in')
    /\ UNCHANGED <<lng, pos, inputs, derived, process, calendar, solver, cli, sky>>

DedupSpec == DedupInit /\ [][DedupAppend]_vars

\* index of the first entry of a list with the gate pair
FirstWithPair(channels, pair) ==
    CHOOSE i \in 1 .. Len(channels) :
        /\ GatePair(channels[i]) = pair
        /\ \A j \in 1 .. (i - 1) : GatePair(channels[j]) # pair

\* C19: in the list unique_channels returns every unordered gate pair of
\* the input appears exactly once, each entry is the first entry of the
\* input with its gate pair, the entries keep the order of the input, and
\* unique_channels applied to the result returns it unchanged.
C19_UniqueChannelsKeepsFirstOfEachKey ==
    LET n == Len(dedup_out)
    IN  /\ { GatePair(dedup_out[j]) : j \in 1 .. n }
              = { GatePair(dedup_in[i]) : i \in 1 .. Len(dedup_in) }
        /\ \A i, j \in 1 .. n :
              i # j => GatePair(dedup_out[i]) # GatePair(dedup_out[j])
        /\ \A j \in 1 .. n :
              dedup_out[j] = dedup_in[FirstWithPair(dedup_in, GatePair(dedup_out[j]))]
        /\ \A i, j \in 1 .. n :
              i < j => FirstWithPair(dedup_in, GatePair(dedup_out[i]))
                          < FirstWithPair(dedup_in, GatePair(dedup_out[j]))
        /\ unique_channels(dedup_out) = dedup_out

\* C19 witness: a list of the 1-8 entry, its gate-swapped copy and a repeat
\* of the first was reduced to the first entry alone.
C19_Witness ==
    /\ Len(dedup_in) = 3
    /\ dedup_in[1] = all_channels[8]
    /\ dedup_in[2] = ChannelDef(8, 1, "Throat", "G")
    /\ dedup_in[3] = all_channels[8]
    /\ dedup_out = << all_channels[8] >>

---------------------------------------------------------------------------
(* calc_julian_day on local times one minute apart *)

\* local minutes a behaviour steps through after its first
MaxTicks == 2

\* the Gregorian leap rule and month lengths of the civil calendar the
\* local times are taken from
CivilLeap(year) == year % 4 = 0 /\ (year % 100 # 0 \/ year % 400 = 0)

CivilMonthLength(year, month) ==
    IF month = 2 THEN (IF CivilLeap(year) THEN 29 ELSE 28)
    ELSE IF month \in { 4, 6, 9, 11 } THEN 30
    ELSE 31

SampleYears == { 1900, 1990, 2000, 2023, 2024, 2100 }

\* <<month, day>>: the ends and starts of the year, of February and of a
\* 30-day month, and a day inside a month
SampleDays ==
    { << 1, 1 >>, << 12, 31 >>, << 2, 28 >>, << 2, 29 >>, << 3, 1 >>,
      << 4, 30 >>, << 5, 1 >>, << 5, 15 >> }

SampleHours == { 0, 1, 14, 23 }

SampleMinutes == { 0, 30, 59 }

\* UTC offsets in quarter hours: -12, -5, -3.5, 0, +1, +5, +5.75, +14
SampleOffsets == { -48, -20, -14, 0, 4, 12, 20, 23, 56 }

\* the f64 of an offset of q quarter hours
OffsetOf(q) == Hours((q * HourUnits) \div 4)

\* the date handed to time::julian_day for the local time in `c`
JulianOf(c) == calc_julian_day(c.year, c.month, c.day, c.hour, c.min, c.utc_offset)

\* the local minute after the one in `c`, on the civil calendar
NextCivilMinute(c) ==
    LET carry_hour  == c.min = 59
        carry_day   == carry_hour /\ c.hour = 23
        carry_month == carry_day /\ c.day = CivilMonthLength(c.year, c.month)
        carry_year  == carry_month /\ c.month = 12
    IN  [ year       |-> IF carry_year THEN c.year + 1 ELSE c.year,
          month      |-> IF carry_year THEN 1
                         ELSE IF carry_month THEN c.month + 1 ELSE c.month,
          day        |-> IF carry_month THEN 1
                         ELSE IF carry_day THEN c.day + 1 ELSE c.day,
          hour       |-> IF carry_day THEN 0
                         ELSE IF carry_hour THEN c.hour + 1 ELSE c.hour,
          min        |-> IF carry_hour THEN 0 ELSE c.min + 1,
          utc_offset |-> c.utc_offset,
          ticks      |-> c.ticks + 1 ]

CalInit ==
    /\ lng = 0
    /\ pos = NoPos
    /\ pc = "calendar"
    /\ personality_sun = 0
    /\ design_sun = 0
    /\ body_lngs = {}
    /\ NotDerived
    /\ NoProcess
    /\ solver = IdleSolver
    /\ cli = IdleCli
    /\ NoDedup
    /\ NoSky
    /\ \E y \in SampleYears, md \in SampleDays, h \in SampleHours,
          m \in SampleMinutes, q \in SampleOffsets :
          /\ md[2] <= CivilMonthLength(y, md[1])
          /\ civil = [ year |-> y, month |-> md[1], day |-> md[2], hour |-> h,
                       min |-> m, utc_offset |-> OffsetOf(q), ticks |-> 0 ]
    /\ julian = JulianOf(civil)

\* calc_julian_day is called for the next local minute
Tick ==
    /\ civil.ticks < MaxTicks
    /\ civil' = NextCivilMinute(civil)
    /\ julian' = JulianOf(civil')
    /\ UNCHANGED <<lng, pos, inputs, derived, process, solver, cli, dedup, sky>>

CalSpec == CalInit /\ [][Tick]_vars

\* the UTC time of the local time in `civil`, in minutes after local
\* midnight (negative on the previous day, 1440 or more on the next)
UtcMinutes ==
    civil.hour * 60 + civil.min - ((civil.utc_offset.v * 60) \div HourUnits)

\* C13: the UTC offset is subtracted; a negative UTC hour gives the previous
\* calendar day with hour + 24 (day - 1, the last day of the previous month
\* from day 1, December 31 of the previous year from January 1), a UTC hour
\* >= 24 gives the next calendar day with hour - 24 (day + 1, the first of
\* the next month, January 1 of the next year), otherwise the date is kept;
\* January 1 00:30 at UTC+5 becomes December 31 of the previous year, 19:30.
C13_DayRollover ==
    LET last == civil.day = CivilMonthLength(civil.year, civil.month)
        ymd  == << julian.year, julian.month, julian.day >>
    IN  /\ UtcMinutes < 0 =>
              /\ julian.hr = (UtcMinutes \div 60) + 24
              /\ ymd = IF civil.day > 1
                       THEN << civil.year, civil.month, civil.day - 1 >>
                       ELSE IF civil.month > 1
                       THEN << civil.year, civil.month - 1,
                               CivilMonthLength(civil.year, civil.month - 1) >>
                       ELSE << civil.year - 1, 12, 31 >>
        /\ UtcMinutes >= 1440 =>
              /\ julian.hr = (UtcMinutes \div 60) - 24
              /\ ymd = IF ~last
                       THEN << civil.year, civil.month, civil.day + 1 >>
                       ELSE IF civil.month < 12
                       THEN << civil.year, civil.month + 1, 1 >>
                       ELSE << civil.year + 1, 1, 1 >>
        /\ (0 <= UtcMinutes /\ UtcMinutes < 1440) =>
              /\ julian.hr = UtcMinutes \div 60
              /\ ymd = << civil.year, civil.month, civil.day >>
        /\ ( /\ civil.month = 1 /\ civil.day = 1 /\ civil.hour = 0 /\ civil.min = 30
             /\ civil.utc_offset = OffsetOf(20) ) =>
              /\ ymd = << civil.year - 1, 12, 31 >>
              /\ julian.hr = 19
              /\ julian.min = 30

\* C13 witness: January 1 2024 00:30 at UTC+5 was converted to December 31
\* 2023, 19:30.
C13_Witness ==
    /\ civil.year = 2024 /\ civil.month = 1 /\ civil.day = 1
    /\ civil.hour = 0 /\ civil.min = 30 /\ civil.utc_offset = OffsetOf(20)
    /\ julian.year = 2023 /\ julian.month = 12 /\ julian.day = 31
    /\ julian.hr = 19 /\ julian.min = 30

\* a date of the civil (Gregorian) calendar
ValidDate(ymd) ==
    /\ ymd[2] \in 1 .. 12
    /\ ymd[3] \in 1 .. CivilMonthLength(ymd[1], ymd[2])

\* C29: on every valid calendar date next_day(prev_day(d)) = d and
\* prev_day(next_day(d)) = d, and both prev_day(d) and next_day(d) are valid
\* calendar dates.
C29_PrevNextInverse ==
    LET d == << civil.year, civil.month, civil.day >>
        p == prev_day(d[1], d[2], d[3])
        n == next_day(d[1], d[2], d[3])
    IN  ValidDate(d) =>
            /\ ValidDate(p)
            /\ ValidDate(n)
            /\ next_day(p[1], p[2], p[3]) = d
            /\ prev_day(n[1], n[2], n[3]) = d

\* C29 witness: March 1 of the leap year 2024 was rolled back to February
\* 29 by prev_day.
C29_Witness ==
    /\ civil.year = 2024 /\ civil.month = 3 /\ civil.day = 1
    /\ julian.year = 2024 /\ julian.month = 2 /\ julian.day = 29

\* C14: February has 29 days exactly in the years divisible by 4 that are
\* not centuries or are divisible by 400: rolling back from March 1 gives
\* February 29 in such a year and February 28 otherwise (February 28 in
\* 1900 and 2100, February 29 in 2000), and rolling forward from February
\* 28 gives February 29 in such a year and March 1 otherwise.
C14_LeapRule ==
    LET leap == civil.year % 4 = 0
                   /\ (civil.year % 100 # 0 \/ civil.year % 400 = 0)
        md   == << julian.month, julian.day >>
    IN  /\ (civil.month = 3 /\ civil.day = 1 /\ UtcMinutes < 0) =>
              /\ md = IF leap THEN << 2, 29 >> ELSE << 2, 28 >>
              /\ civil.year \in { 1900, 2100 } => md = << 2, 28 >>
              /\ civil.year = 2000 => md = << 2, 29 >>
        /\ (civil.month = 2 /\ civil.day = 28 /\ UtcMinutes >= 1440) =>
              md = IF leap THEN << 2, 29 >> ELSE << 3, 1 >>

\* C14 witness: March 1 1900, 00:00 at UTC+1 was rolled back to February 28
\* 1900.
C14_Witness ==
    /\ civil.year = 1900 /\ civil.month = 3 /\ civil.day = 1 /\ civil.hour = 0
    /\ UtcMinutes < 0
    /\ julian.year = 1900 /\ julian.month = 2 /\ julian.day = 28

\* minutes from the time value of date `a` to the time value of date `b`
MinutesBetween(a, b) ==
    (julian_day(b).day - julian_day(a).day) * 1440
        + (julian_day(b).minute - julian_day(a).minute)

\* C15: for a fixed UTC offset the time value of the next local minute is
\* never smaller and is exactly one minute (1/1440 day) larger, across the
\* day, month and year rollovers too.
C15_MonotonicMinuteSteps ==
    [][ civil'.ticks = civil.ticks + 1 =>
            /\ MinutesBetween(julian, julian') >= 0
            /\ MinutesBetween(julian, julian') = 1 ]_vars

\* the same instant as `civil` written as a local time at UTC+0, counted on
\* the civil calendar
UtcCivil ==
    LET last == civil.day = CivilMonthLength(civil.year, civil.month)
        ymd  == IF UtcMinutes < 0
                THEN IF civil.day > 1
                     THEN << civil.year, civil.month, civil.day - 1 >>
                     ELSE IF civil.month > 1
                     THEN << civil.year, civil.month - 1,
                             CivilMonthLength(civil.year, civil.month - 1) >>
                     ELSE << civil.year - 1, 12, 31 >>
                ELSE IF UtcMinutes >= 1440
                THEN IF ~last
                     THEN << civil.year, civil.month, civil.day + 1 >>
                     ELSE IF civil.month < 12
                     THEN << civil.year, civil.month + 1, 1 >>
                     ELSE << civil.year + 1, 1, 1 >>
                ELSE << civil.year, civil.month, civil.day >>
    IN  [ year |-> ymd[1], month |-> ymd[2], day |-> ymd[3],
          hour |-> (UtcMinutes % 1440) \div 60, min |-> UtcMinutes % 60,
          utc_offset |-> OffsetOf(0), ticks |-> civil.ticks ]

\* C28: for an hour in 0..23, a minute in 0..59 and an offset from -12 to 14
\* the corrected UTC hour lies in [0,24), and the time value is that of the
\* same instant written at UTC+0; 1990-05-15 14:30 at +3 gives the value of
\* 1990-05-15 11:30 at 0 and 1990-01-01 00:30 at +5 that of 1989-12-31 19:30
\* at 0.
C28_SameInstantSameJulianDay ==
    /\ julian.hr \in 0 .. 23
    /\ julian.min \in 0 .. 59
    /\ MinutesBetween(julian, JulianOf(UtcCivil)) = 0
    /\ ( /\ << civil.year, civil.month, civil.day >> = << 1990, 5, 15 >>
         /\ civil.hour = 14 /\ civil.min = 30 /\ civil.utc_offset = OffsetOf(12) ) =>
            /\ << UtcCivil.year, UtcCivil.month, UtcCivil.day >> = << 1990, 5, 15 >>
            /\ << UtcCivil.hour, UtcCivil.min >> = << 11, 30 >>
    /\ ( /\ << civil.year, civil.month, civil.day >> = << 1990, 1, 1 >>
         /\ civil.hour = 0 /\ civil.min = 30 /\ civil.utc_offset = OffsetOf(20) ) =>
            /\ << UtcCivil.year, UtcCivil.month, UtcCivil.day >> = << 1989, 12, 31 >>
            /\ << UtcCivil.hour, UtcCivil.min >> = << 19, 30 >>

---------------------------------------------------------------------------
(* find_design_jd against an arbitrary Sun *)

\* birth Sun longitudes: 88 and 358 degrees, and the f64 next below 88
\* degrees (its distance from 88, exact in f64, is less than half the f64
\* spacing at 360 degrees, a value next to zero)
BirthSunLongitudes == { 88 * DegUnits, 358 * DegUnits, 88 * DegUnits - 1 }

\* what sun::geocent_ecl_pos may return for any estimate, in degrees: the
\* target, a quarter turn after and before it (not reduced to one turn),
\* and a negative value next to zero
SunReturns(target) ==
    { target, target + 90 * DegUnits, target - 90 * DegUnits, -1 }

SolverInit ==
    /\ lng = 0
    /\ pos = NoPos
    /\ pc = "solver"
    /\ personality_sun = 0
    /\ design_sun = 0
    /\ body_lngs = {}
    /\ NotDerived
    /\ NoProcess
    /\ NoCalendar
    /\ cli = IdleCli
    /\ NoDedup
    /\ NoSky
    /\ \E birth_sun_lng \in BirthSunLongitudes :
          solver = [ pc          |-> "loop",
                     target      |-> normalize_deg(F64Sub(birth_sun_lng, 88 * DegUnits)),
                     jd          |-> first_estimate,
                     i           |-> 0,
                     evals       |-> 0,
                     current_lng |-> 0,
                     eval_jd     |-> 0,
                     broke       |-> FALSE ]

\* `diff` of one pass of the loop for the Sun longitude `raw`
DiffFor(raw) == wrap_diff(F64Sub(solver.target, normalize_deg(raw)))

\* a pass of the loop that meets the tolerance and breaks
EvalAndBreak ==
    /\ solver.pc = "loop"
    /\ loop_continues(solver.i)
    /\ \E raw \in SunReturns(solver.target) :
          /\ within_tolerance(DiffFor(raw))
          /\ solver' = [ solver EXCEPT !.pc = "done",
                                       !.evals = @ + 1,
                                       !.current_lng = normalize_deg(raw),
                                       !.eval_jd = solver.jd,
                                       !.broke = TRUE ]
    /\ UNCHANGED <<lng, pos, inputs, derived, process, calendar, cli, dedup, sky>>

\* a pass of the loop that corrects the estimate
EvalAndAdvance ==
    /\ solver.pc = "loop"
    /\ loop_continues(solver.i)
    /\ \E raw \in SunReturns(solver.target) :
          /\ ~within_tolerance(DiffFor(raw))
          /\ solver' = [ solver EXCEPT !.i = @ + 1,
                                       !.evals = @ + 1,
                                       !.current_lng = normalize_deg(raw),
                                       !.eval_jd = solver.jd,
                                       !.jd = advance(solver.jd, DiffFor(raw)) ]
    /\ UNCHANGED <<lng, pos, inputs, derived, process, calendar, cli, dedup, sky>>

\* the loop is exhausted: `jd` is returned as it is
ReturnAtCap ==
    /\ solver.pc = "loop"
    /\ ~loop_continues(solver.i)
    /\ solver' = [ solver EXCEPT !.pc = "done" ]
    /\ UNCHANGED <<lng, pos, inputs, derived, process, calendar, cli, dedup, sky>>

SolverNext == EvalAndBreak \/ EvalAndAdvance \/ ReturnAtCap

\* the function runs on: sequential code takes its next step
SolverSpec == SolverInit /\ [][SolverNext]_vars /\ WF_vars(SolverNext)

\* C11: whatever the Sun function returns, find_design_jd evaluates it at
\* most 50 times, returns after the 50th pass without an error when the
\* tolerance was never met, and always returns.
C11_SolverTerminates ==
    /\ [](/\ solver.evals <= 50
          /\ solver.pc \in { "loop", "done" }
          /\ (solver.pc = "done" /\ ~solver.broke) => solver.evals = 50)
    /\ <>(solver.pc = "done")

\* C11 witness: the tolerance was never met and the estimate after 50
\* passes was returned.
C11_Witness ==
    /\ solver.pc = "done"
    /\ ~solver.broke
    /\ solver.evals = 50

\* shortest distance between two longitudes around the circle
AngularDistance(a, b) ==
    LET d == (a - b) % D360
    IN  Min(d, D360 - d)

\* C12: when the loop stopped on the tolerance test, the Sun longitude
\* evaluated last is within 0.0001 degree (around the circle) of
\* normalize(S - 88) and the time returned is the estimate it was evaluated
\* at.
C12_SolverMeetsTolerance ==
    (solver.pc = "done" /\ solver.broke) =>
        /\ AngularDistance(solver.current_lng, solver.target) < TinySteps
        /\ solver.jd = solver.eval_jd

\* C12 witness: the loop stopped on the tolerance test after at least one
\* correction of the estimate.
C12_Witness ==
    /\ solver.pc = "done"
    /\ solver.broke
    /\ solver.evals >= 2
    /\ solver.jd # first_estimate

\* C21: the target lies in [0,360), the first estimate is 89.3 days before
\* the birth, and for every Sun longitude a pass may see, the difference
\* tested and used for the correction lies in [-180,180] and is congruent
\* modulo 360 to target minus current longitude.
C21_TargetAndDiffOnTheCircle ==
    solver.pc # "idle" =>
        /\ solver.target >= 0
        /\ solver.target < D360
        /\ solver.evals = 0 => Abs(10 * solver.jd + 893 * DegUnits) <= 5
        /\ \A raw \in SunReturns(solver.target) :
              /\ Abs(DiffFor(raw)) <= 180 * DegUnits
              /\ (DiffFor(raw) - (solver.target - normalize_deg(raw))) % D360 = 0

---------------------------------------------------------------------------
(* cli.rs and main.rs: the command line run *)

\* a piece of an argument between separators: decimal digits with the value
\* `v`, or some other text
Digits(v) == [num |-> TRUE, v |-> v]

OtherText == [num |-> FALSE, v |-> 0]

\* str::parse::<u8>
parse_u8(part) ==
    IF part.num /\ part.v \in 0 .. 255 THEN [ok |-> TRUE, v |-> part.v]
    ELSE [ok |-> FALSE, v |-> 0]

\* str::parse::<i32>
parse_i32(part) ==
    IF part.num /\ part.v \in -(2 ^ 30) .. 2 ^ 30 THEN [ok |-> TRUE, v |-> part.v]
    ELSE [ok |-> FALSE, v |-> 0]

Failed(error) == [ok |-> FALSE, error |-> error]

\* parse_date on the parts of the argument between '-'
parse_date(parts) ==
    IF Len(parts) # 3 THEN Failed("Expected YYYY-MM-DD")
    ELSE LET year  == parse_i32(parts[1])
             month == parse_u8(parts[2])
             day   == parse_u8(parts[3])
         IN  IF ~year.ok THEN Failed("Invalid year")
             ELSE IF ~month.ok THEN Failed("Invalid month")
             ELSE IF ~day.ok THEN Failed("Invalid day")
             ELSE IF month.v < 1 \/ month.v > 12 THEN Failed("Month must be 1-12")
             ELSE IF day.v < 1 \/ day.v > 31 THEN Failed("Day must be 1-31")
             ELSE [ok |-> TRUE, year |-> year.v, month |-> month.v, day |-> day.v]

\* parse_time on the parts of the argument between ':'
parse_time(parts) ==
    IF Len(parts) # 2 THEN Failed("Expected HH:MM")
    ELSE LET hour == parse_u8(parts[1])
             min  == parse_u8(parts[2])
         IN  IF ~hour.ok THEN Failed("Invalid hour")
             ELSE IF ~min.ok THEN Failed("Invalid minute")
             ELSE IF hour.v > 23 THEN Failed("Hour must be 0-23")
             ELSE IF min.v > 59 THEN Failed("Minute must be 0-59")
             ELSE [ok |-> TRUE, hour |-> hour.v, min |-> min.v]

\* str::parse::<f64> on the trimmed argument: a number (in quarter hours),
\* the text "NaN", which parses to the NaN value, or text that is no number
parse_f64(arg) ==
    IF arg.kind = "number" THEN [ok |-> TRUE, v |-> OffsetOf(arg.quarters)]
    ELSE IF arg.kind = "NaN" THEN [ok |-> TRUE, v |-> NaN]
    ELSE [ok |-> FALSE, v |-> NaN]

\* f64 `a < b` and `a > b`: false when either side is NaN
F64Less(a, b) == ~a.nan /\ ~b.nan /\ a.v < b.v

F64Greater(a, b) == ~a.nan /\ ~b.nan /\ a.v > b.v

\* parse_utc_offset
parse_utc_offset(arg) ==
    LET offset == parse_f64(arg)
    IN  IF ~offset.ok THEN Failed("Expected number")
        ELSE IF \/ F64Less(offset.v, Hours(-12 * HourUnits))
                \/ F64Greater(offset.v, Hours(14 * HourUnits))
        THEN Failed("Offset must be -12 to +14")
        ELSE [ok |-> TRUE, offset |-> offset.v]

\* --date arguments: valid dates, a day no month has, a year beyond i16,
\* fields out of range or beyond u8, text, a missing part
DateArguments ==
    { << Digits(2024), Digits(1), Digits(1) >>,
      << Digits(2024), Digits(12), Digits(31) >>,
      << Digits(2023), Digits(2), Digits(31) >>,
      << Digits(40000), Digits(6), Digits(15) >>,
      << Digits(2024), Digits(0), Digits(1) >>,
      << Digits(2024), Digits(13), Digits(1) >>,
      << Digits(2024), Digits(300), Digits(1) >>,
      << Digits(2024), Digits(1), Digits(0) >>,
      << Digits(2024), Digits(1), Digits(32) >>,
      << Digits(2024), Digits(1), OtherText >>,
      << OtherText, Digits(1), Digits(1) >>,
      << Digits(2024), Digits(1) >> }

\* --time arguments
TimeArguments ==
    { << Digits(0), Digits(30) >>,
      << Digits(23), Digits(59) >>,
      << Digits(24), Digits(0) >>,
      << Digits(12), Digits(60) >>,
      << Digits(12), OtherText >>,
      << OtherText, Digits(0) >>,
      << Digits(12) >> }

\* --utc arguments: -12, 0, +5.5, +14, -12.25, +14.25, "NaN", "abc"
UtcArguments ==
    { [kind |-> "number", quarters |-> q] : q \in { -48, 0, 22, 56, -49, 57 } }
        \cup { [kind |-> "NaN", quarters |-> 0], [kind |-> "text", quarters |-> 0] }

\* the Sun longitudes calc_planet_positions may return in a run
CliSunLongitudes == { SampleLongitude(11, 1), SampleLongitude(21, 4) }

CliInit ==
    /\ lng = 0
    /\ pos = NoPos
    /\ pc = "cli"
    /\ personality_sun = 0
    /\ design_sun = 0
    /\ body_lngs = {}
    /\ NotDerived
    /\ NoProcess
    /\ NoCalendar
    /\ solver = IdleSolver
    /\ NoDedup
    /\ NoSky
    /\ cli = [ IdleCli EXCEPT !.pc = "start" ]

\* main, step 2: the config subcommand is handled and main returns
ConfigCommand ==
    /\ cli.pc = "start"
    /\ cli' = [ cli EXCEPT !.pc = "exit_ok" ]
    /\ UNCHANGED <<lng, pos, inputs, derived, process, calendar, solver, dedup, sky>>

\* main, step 3: the language is determined and set as the locale
DetermineLanguage ==
    /\ cli.pc = "start"
    /\ \E l \in Languages :
          /\ lang' = l
          /\ i18n_locale' = l
    /\ cli' = [ cli EXCEPT !.pc = "arguments" ]
    /\ UNCHANGED <<lng, pos, inputs, derived, first_chart, calendar, solver, dedup, sky>>

\* main, step 4: an argument is missing, help is printed, exit(1)
MissingArgument ==
    /\ cli.pc = "arguments"
    /\ cli' = [ cli EXCEPT !.pc = "exit_error" ]
    /\ UNCHANGED <<lng, pos, inputs, derived, process, calendar, solver, dedup, sky>>

ParseDate ==
    /\ cli.pc = "arguments"
    /\ \E date_str \in DateArguments :
          LET parsed == parse_date(date_str)
          IN  cli' = IF parsed.ok
                     THEN [ cli EXCEPT !.pc = "parse_time",
                                       !.year = parsed.year,
                                       !.month = parsed.month,
                                       !.day = parsed.day ]
                     ELSE [ cli EXCEPT !.pc = "exit_error" ]
    /\ UNCHANGED <<lng, pos, inputs, derived, process, calendar, solver, dedup, sky>>

ParseTime ==
    /\ cli.pc = "parse_time"
    /\ \E time_str \in TimeArguments :
          LET parsed == parse_time(time_str)
          IN  cli' = IF parsed.ok
                     THEN [ cli EXCEPT !.pc = "parse_utc_offset",
                                       !.hour = parsed.hour,
                                       !.min = parsed.min ]
                     ELSE [ cli EXCEPT !.pc = "exit_error" ]
    /\ UNCHANGED <<lng, pos, inputs, derived, process, calendar, solver, dedup, sky>>

ParseUtcOffset ==
    /\ cli.pc = "parse_utc_offset"
    /\ \E utc_str \in UtcArguments :
          LET parsed == parse_utc_offset(utc_str)
          IN  cli' = IF parsed.ok
                     THEN [ cli EXCEPT !.pc = "build_chart",
                                       !.utc_offset = parsed.offset ]
                     ELSE [ cli EXCEPT !.pc = "exit_error" ]
    /\ UNCHANGED <<lng, pos, inputs, derived, process, calendar, solver, dedup, sky>>

\* build_chart is called: steps 1 to 4, the Julian Day of the birth and the
\* positions; a panic of month_from_u8 aborts the run
CalcPositions ==
    /\ cli.pc = "build_chart"
    /\ civil' = [ year |-> cli.year, month |-> cli.month, day |-> cli.day,
                  hour |-> cli.hour, min |-> cli.min,
                  utc_offset |-> cli.utc_offset, ticks |-> 0 ]
    /\ julian' = JulianOf(civil')
    /\ IF julian'.panicked
       THEN /\ cli' = [ cli EXCEPT !.pc = "panic" ]
            /\ UNCHANGED inputs
       ELSE /\ cli' = [ cli EXCEPT !.pc = "positions" ]
            /\ personality_sun' \in CliSunLongitudes
            /\ design_sun' \in CliSunLongitudes
            /\ pc' = "bodies"
            /\ UNCHANGED body_lngs
    /\ UNCHANGED <<lng, pos, derived, process, solver, dedup, sky>>

\* the rest of build_chart, and the chart is printed
ChartAndOutput ==
    /\ cli.pc = "positions"
    /\ RunBuildChart
    /\ pc' = "done"
    /\ cli' = [ cli EXCEPT !.pc = "output", !.chart = TRUE ]
    /\ UNCHANGED <<lng, pos, personality_sun, design_sun, body_lngs, process,
                   calendar, solver, dedup, sky>>

CliNext ==
    \/ ConfigCommand
    \/ DetermineLanguage
    \/ MissingArgument
    \/ ParseDate
    \/ ParseTime
    \/ ParseUtcOffset
    \/ CalcPositions
    \/ ChartAndOutput

CliSpec == CliInit /\ [][CliNext]_vars

\* the chart computation has been entered
ChartStarted == cli.pc \in { "positions", "output", "panic" }

\* C18: the chart computation starts only on a month in 1..12, a day in
\* 1..31, an hour in 0..23, a minute in 0..59 and an offset from -12 to 14;
\* a run that ended with an error computed no chart; the month handed to
\* month_from_u8 is in 1..12 and its panic is never reached.
C18_ChartOnlyOnValidatedInput ==
    /\ ChartStarted =>
          /\ cli.month \in 1 .. 12
          /\ cli.day \in 1 .. 31
          /\ cli.hour \in 0 .. 23
          /\ cli.min \in 0 .. 59
          /\ ~cli.utc_offset.nan
          /\ cli.utc_offset.v >= -12 * HourUnits
          /\ cli.utc_offset.v <= 14 * HourUnits
    /\ cli.pc = "exit_error" =>
          /\ ~cli.chart
          /\ julian = NoJulian
          /\ NotDerived
    /\ ChartStarted =>
          /\ julian.month \in 1 .. 12
          /\ ~julian.panicked
    /\ cli.pc # "panic"

---------------------------------------------------------------------------
(* Claims about the wheel mapping, checked under WheelSpec *)

TupleOf(p) == <<p.gate, p.line, p.color, p.tone, p.base>>

OnGrid(x) == x % TinySteps = 0

\* C6: for every finite longitude, negative and >= 360 included,
\* degree_to_gate returns gate in 1..64, line, color and tone in 1..6, base
\* in 1..5 and a degree field in [0,360), and the longitude plus any
\* multiple of 360 gives the identical tuple.
C6_RangesAndNormalizedDegree ==
    /\ pos.gate \in 1 .. 64
    /\ pos.line \in 1 .. 6
    /\ pos.color \in 1 .. 6
    /\ pos.tone \in 1 .. 6
    /\ pos.base \in 1 .. 5
    /\ 0 <= pos.degree /\ pos.degree < D360
    /\ \A k \in (-MaxTurns) .. MaxTurns :
          TupleOf(degree_to_gate(F64Add(lng, k * D360))) = TupleOf(pos)

\* The mixed-radix reference of C7, computed on the exact offset.
MixedRadixReference(x) ==
    LET offset == (x - WHEEL_START_DEGREE) % D360
        r1     == offset % GATE_SIZE_DEG
        r2     == r1 % LINE_SIZE_DEG
        r3     == r2 % COLOR_SIZE_DEG
        r4     == r3 % (COLOR_SIZE_DEG \div 6)
    IN  << GATE_ORDER[(offset \div GATE_SIZE_DEG) + 1],
           (r1 \div LINE_SIZE_DEG) + 1,
           (r2 \div COLOR_SIZE_DEG) + 1,
           (r3 \div (COLOR_SIZE_DEG \div 6)) + 1,
           (r4 \div (COLOR_SIZE_DEG \div 30)) + 1 >>

WheelIndex(gate) == (CHOOSE i \in 1 .. 64 : GATE_ORDER[i] = gate) - 1

\* the tuple one base cell further: (line, color, tone, base) counts up in
\* mixed radix 6,6,6,5 and rolls over to the next gate of the wheel order
NextTuple(p) ==
    LET n == ((((p.line - 1) * 6 + (p.color - 1)) * 6 + (p.tone - 1)) * 5
              + (p.base - 1)) + 1
        g == IF n = 6 * 6 * 6 * 5
             THEN GATE_ORDER[((WheelIndex(p.gate) + 1) % 64) + 1]
             ELSE p.gate
        m == n % (6 * 6 * 6 * 5)
    IN  << g, (m \div (6 * 6 * 5)) + 1, ((m \div (6 * 5)) % 6) + 1,
           ((m \div 5) % 6) + 1, (m % 5) + 1 >>

\* the base cell (0 .. 69119, counted from 302 degrees) a tuple names
CellOfTuple(p) ==
    (((WheelIndex(p.gate) * 6 + (p.line - 1)) * 6 + (p.color - 1)) * 6
        + (p.tone - 1)) * 5 + (p.base - 1)

---------------------------------------------------------------------------
(* The profile of a design Sun 88 degrees behind, checked under WheelSpec *)

\* the profiles of the angle table
AngleTableKeys ==
    { "1/3", "1/4", "2/4", "2/5", "3/5", "3/6",
      "4/6", "4/1", "5/1", "5/2", "6/2", "6/3" }

\* the design Sun longitudes within the solver tolerance of the target: the
\* target and the f64 values next to it
NearTarget(sun_lng) == { design_target(sun_lng) + off : off \in { -1, 0, 1 } }

\* C23: with the personality Sun at any longitude and the design Sun 88
\* degrees behind it, exactly or within the solver tolerance, the profile
\* key is one of the 12 keys of the angle table.
C23_ProfileIsInAngleTable ==
    \A design_lng \in NearTarget(normalize_deg(lng)) :
        profile_key_of(degree_to_gate(normalize_deg(lng)), degree_to_gate(design_lng))
            \in AngleTableKeys

\* C23 witness: a personality Sun in line 4 whose design Sun, 88 degrees
\* behind, is in line 1, after the sweep has passed other profiles.
C23_Witness ==
    /\ pos.line = 4
    /\ lng > WHEEL_START_DEGREE
    /\ profile_key_of(degree_to_gate(normalize_deg(lng)),
                      degree_to_gate(design_target(normalize_deg(lng)))) = "4/1"

---------------------------------------------------------------------------
(* calc_planet_positions on what the astro crate returns *)

\* the bodies of `planets_list`, in its order
planets_list ==
    << "Mercury", "Venus", "Mars", "Jupiter", "Saturn", "Uranus", "Neptune" >>

PlanetCalcResult(planet, ecliptic_lng) ==
    [ planet |-> planet, ecliptic_lng |-> ecliptic_lng ]

calc_planet_positions(e) ==
    LET sun_lng == normalize_deg(e.sun)
        nn_lng  == normalize_deg(e.node)
        sn_lng  == normalize_deg(F64Add(nn_lng, 180 * DegUnits))
    IN  << PlanetCalcResult("Sun", sun_lng),
           PlanetCalcResult("Earth", earth_lng_of(sun_lng)),
           PlanetCalcResult("Moon", normalize_deg(e.moon)),
           PlanetCalcResult("NorthNode", nn_lng),
           PlanetCalcResult("SouthNode", sn_lng) >>
        \o [ i \in 1 .. Len(planets_list) |->
                PlanetCalcResult(planets_list[i], normalize_deg(e.planets[i])) ]
        \o << PlanetCalcResult("Pluto", normalize_deg(e.pluto)) >>

\* longitudes the astro crate may return for the Sun and the node: points
\* inside a base cell all around the wheel, one of them a turn below zero
\* and one a turn above 360, a negative value next to zero, and the f64
\* next below the line boundary at 332.9375 degrees
SkyLongitudes ==
    { SampleLongitude(0, 1), SampleLongitude(11, 3), SampleLongitude(31, 6),
      SampleLongitude(40, 2) - D360, SampleLongitude(58, 5) + D360,
      SampleLongitude(63, 6), -1,
      WHEEL_START_DEGREE + 33 * LINE_SIZE_DEG - 1 }

MoonLongitudes == { SampleLongitude(5, 2), SampleLongitude(50, 4) - D360 }

PlanetLongitudes ==
    [ i \in 1 .. 7 |-> SampleLongitude(9 * i, ((i - 1) % 6) + 1) ]

PositionsInit ==
    /\ lng = 0
    /\ pos = NoPos
    /\ pc = "positions"
    /\ personality_sun = 0
    /\ design_sun = 0
    /\ body_lngs = {}
    /\ NotDerived
    /\ NoProcess
    /\ NoCalendar
    /\ solver = IdleSolver
    /\ cli = IdleCli
    /\ NoDedup
    /\ positions = << >>
    /\ \E s \in SkyLongitudes, n \in SkyLongitudes, m \in MoonLongitudes :
          ephemeris = [ sun |-> s, moon |-> m, node |-> n,
                        planets |-> PlanetLongitudes,
                        pluto |-> SampleLongitude(20, 1) ]

CalcPlanetPositions ==
    /\ positions = << >>
    /\ positions' = calc_planet_positions(ephemeris)
    /\ UNCHANGED <<lng, pos, inputs, derived, process, calendar, solver, cli,
                   dedup, ephemeris>>

PositionsSpec == PositionsInit /\ [][CalcPlanetPositions]_vars

\* C22: calc_planet_positions returns 13 positions, in the order Sun, Earth,
\* Moon, NorthNode, SouthNode, Mercury, Venus, Mars, Jupiter, Saturn, Uranus,
\* Neptune, Pluto, each longitude in [0,360), Earth at normalize(Sun + 180)
\* and SouthNode at normalize(NorthNode + 180).
C22_ThirteenPositions ==
    positions # << >> =>
        /\ [ i \in 1 .. Len(positions) |-> positions[i].planet ]
              = << "Sun", "Earth", "Moon", "NorthNode", "SouthNode", "Mercury",
                   "Venus", "Mars", "Jupiter", "Saturn", "Uranus", "Neptune",
                   "Pluto" >>
        /\ \A i \in 1 .. Len(positions) :
              positions[i].ecliptic_lng >= 0 /\ positions[i].ecliptic_lng < D360
        /\ positions[2].ecliptic_lng
              = normalize_deg(F64Add(positions[1].ecliptic_lng, 180 * DegUnits))
        /\ positions[5].ecliptic_lng
              = normalize_deg(F64Add(positions[4].ecliptic_lng, 180 * DegUnits))

\* the second activation is opposite the first on the wheel
Opposite(first, second) ==
    /\ WheelIndex(second.gate) = (WheelIndex(first.gate) + 32) % 64
    /\ <<second.line, second.color, second.tone, second.base>>
          = <<first.line, first.color, first.tone, first.base>>

\* C24: the Earth activation is opposite the Sun activation (the gate 32
\* positions further in GATE_ORDER, the same line, color, tone and base),
\* and the SouthNode activation is opposite the NorthNode activation.
C24_EarthOppositeSun ==
    positions # << >> =>
        /\ Opposite(degree_to_gate(positions[1].ecliptic_lng),
                    degree_to_gate(positions[2].ecliptic_lng))
        /\ Opposite(degree_to_gate(positions[4].ecliptic_lng),
                    degree_to_gate(positions[5].ecliptic_lng))

\* C16: normalize_deg returns a value in [0,360) for every x, gives x + 360
\* the value it gives x, and equals ((x % 360) + 360) % 360.
C16_NormalizeDegRangeAndFormula ==
    /\ 0 <= normalize_deg(lng) /\ normalize_deg(lng) < D360
    /\ normalize_deg(F64Add(lng, D360)) = normalize_deg(lng)
    /\ normalize_deg(lng) = F64Rem(F64Add(F64Rem(lng, D360), D360), D360)

===========================================================================
